---- MODULE Spec2Model ----
(***************************************************************************)
(* A model of chalkboard (bread-graphics/chalkboard):                      *)
(*   - chalkboard-geometry: Path / PathSlice, the path-to-points iterator  *)
(*     PathSegmentsToPoints and BezierCurve flattening;                    *)
(*   - chalkboard: the XRender brush cache (Brushes), the lifetime of      *)
(*     RenderBreadxSurface / RenderResidual, and the DrawMethod chain.     *)
(* Every part has its own specification (SpecPath, SpecClose, SpecRender,  *)
(* SpecDraw); the variables of the other parts stay at their idle values.  *)
(***************************************************************************)
EXTENDS Integers, Sequences, FiniteSets, TLC

VARIABLES
    \* ---- PathSegmentsToPoints (chalkboard-geometry/src/path.rs) ----
    segments,                 \* the path the traversal was created from
    inner_lo,                 \* inner_pathseg_iter: segments inner_lo+1 .. inner_hi remain
    inner_hi,
    front_bezier_curve_iter,  \* Option<B>
    back_bezier_curve_iter,   \* Option<B>
    front_prev_segment,       \* Option<PathSegment>
    back_prev_segment,        \* Option<PathSegment>
    front_out,                \* what next() has returned so far (Some values)
    back_out,                 \* what next_back() has returned so far (Some values)
    front_none,               \* next() has returned None at least once
    back_none,                \* next_back() has returned None at least once
    revived,                  \* an end returned Some after it had returned None
    promise,                  \* max over past states of size_hint().0 + points yielded
    \* ---- Path::close (chalkboard-geometry/src/path.rs) ----
    path,                     \* Path.segments
    path_before,              \* the segments before the last close()
    close_calls,              \* close() calls made since the last push()
    close_result,             \* "none", or how the last close() ended: "ok" | "panic"
    \* ---- RenderBreadxSurface / RenderResidual / Brushes (chalkboard/src/breadx/xrender) ----
    surface,                  \* Option<RenderBreadxSurface>: mask, solid, brushes, width, height
    residual,                 \* Option<RenderResidual>: mask, solid, brushes, width, height
    next_xid,                 \* the backend's next fresh resource id
    freed,                    \* resource ids passed to the backend's free
    double_freed,             \* resource ids passed to the backend's free more than once
    used_after_free,          \* resource ids used in a backend call after they were freed
    fills_made,               \* Brushes::fill calls made so far
    ok_fills,                 \* per key: successful Brushes::fill calls on the current cache
    last_fill,                \* the last Brushes::fill call: key, result, what it created
    last_brushes_free,        \* the last Brushes::free call: what the cache held, what it freed
    last_op,                  \* the last operation on the surface or the residual
    \* ---- Context and the DrawMethod chain (chalkboard/src/context.rs, draw_method) ----
    chain,                    \* the draw methods, outermost first; each one's inner() is the next
    draw_method,              \* Context.draw_method: the index in chain of the current method
    draws_made,               \* Context::draw calls made so far
    draw_outcome,             \* the last Context::draw call: op, where it started, how it ended
    noop_outcome,             \* the last direct NoopDrawer::draw call and its result
    \* ---- polyline (chalkboard-geometry/src/lib.rs) ----
    poly_points,              \* the points the inner iterator yields
    poly_pos,                 \* how many of them scan() has pulled
    last_point,               \* scan's state: Option<Point>
    poly_lines,               \* the lines next() has returned so far
    poly_done,                \* next() has returned None
    \* ---- BezierCurve::into_points (chalkboard-geometry/src/curve.rs) ----
    curve,                    \* the BezierCurve
    curve_iter,               \* the iterator into_points() returned
    curve_out,                \* the points next() has returned so far
    curve_done,               \* next() has returned None
    \* ---- Line::intersection (chalkboard-geometry/src/lib.rs) ----
    line_self,                \* the receiver of intersection()
    line_other,               \* its argument
    intersection_result,      \* Option<bool>: what the call returned
    \* ---- Polygon (chalkboard-geometry/src/polygon.rs) ----
    polygon,                  \* Option<Polygon>: [edges |-> the Vec<Edge<f32>>]
    polygon_built,            \* how it was built: "none" | "default" | "edges" | "events"
    offered,                  \* the Edge::new(p1, p2) candidates of the last operation
    \* ---- Trapezoid::from_triangle (chalkboard-geometry/src/trap.rs, thrice.rs) ----
    triangle,                 \* the argument: [a, b, c]
    trap_call,                \* "none", or how from_triangle ended: "returned" | "panic"
    trap_count,               \* len() of the iterator from_triangle returned
    thrice,                   \* the Thrice iterator: the items still in it
    trap_out,                 \* the trapezoids pulled out of it so far
    \* ---- Region (chalkboard-geometry/src/region.rs) ----
    region_bounds,            \* Region.bounds
    region_boxes,             \* Region.boxes
    bounds_before,            \* bounds before the last insertion (add, extend, from_iter)
    region_op,                \* the last operation: "default" | "add" | "extend" | "from_iter"
    \* ---- Intensity::new (chalkboard-geometry/src/intensity.rs, src/intensity.rs) ----
    intensity_arg,            \* the f32 handed to new()
    intensity_impl,           \* which new() was called: "none" | "geometry" | "chalkboard"
    intensity_result,         \* Option<Intensity>: what new() returned
    inner_result,             \* Option<f32>: what into_inner() returned on it
    \* ---- outline (chalkboard-geometry/src/outline.rs, path.rs) ----
    outline_segs,             \* the segments of the path that is outlined
    outline_width,            \* line_width
    outline_iter,             \* the Chain of the two Outliners outline() returned
    outline_out,              \* the points pulled from it so far, with what made them
    outline_done,             \* the chain has returned None
    outline_result,           \* Option<Path>: what PathSlice::outline returned
    \* ---- Brushes on its own (chalkboard/src/breadx/xrender/brushes.rs) ----
    cache,                    \* Brushes.brushes
    cache_xid,                \* the id the backend hands out next
    cache_fills,              \* the Brushes::fill calls made in this run
    cache_leaked,             \* ids created by a fill that are neither in the map nor freed
    manager,                  \* FallbackBreadxSurface::manager (ColorManager)
    surface_line_width,       \* FallbackBreadxSurface::line_width
    gc,                       \* the server's graphics context: foreground and line width
    requested_width,          \* the width of a set_line_width no primitive was sent after
    primitive,                \* the last draw primitive call and the GC it was sent with
    surface_calls             \* the surface calls made in this run

pathIterVars == << segments, inner_lo, inner_hi, front_bezier_curve_iter,
                   back_bezier_curve_iter, front_prev_segment, back_prev_segment,
                   front_out, back_out, front_none, back_none, revived, promise >>
closeVars == << path, path_before, close_calls, close_result >>
renderVars == << surface, residual, next_xid, freed, double_freed, used_after_free,
                 fills_made, ok_fills, last_fill, last_brushes_free, last_op >>
drawVars == << chain, draw_method, draws_made, draw_outcome, noop_outcome >>
polylineVars == << poly_points, poly_pos, last_point, poly_lines, poly_done >>
curveVars == << curve, curve_iter, curve_out, curve_done >>
lineVars == << line_self, line_other, intersection_result >>
polygonVars == << polygon, polygon_built, offered >>
trapVars == << triangle, trap_call, trap_count, thrice, trap_out >>
regionVars == << region_bounds, region_boxes, bounds_before, region_op >>
geomVars == << polylineVars, curveVars, lineVars, polygonVars, trapVars, regionVars >>
intensityVars == << intensity_arg, intensity_impl, intensity_result, inner_result >>
outlineVars == << outline_segs, outline_width, outline_iter, outline_out, outline_done,
                 outline_result >>
cacheVars == << cache, cache_xid, cache_fills, cache_leaked >>
fallbackVars == << manager, surface_line_width, gc, requested_width, primitive, surface_calls >>
extVars == << intensityVars, outlineVars, cacheVars, fallbackVars >>
vars == << pathIterVars, closeVars, renderVars, drawVars, geomVars, extVars >>

-----------------------------------------------------------------------------
(* Option<T>: None is the empty sequence, Some(x) the one-element sequence. *)
None == << >>
Some(x) == << x >>
IsSome(o) == Len(o) = 1
IsNone(o) == Len(o) = 0
Unwrap(o) == o[1]

Max(a, b) == IF a >= b THEN a ELSE b
Abs(a) == IF a >= 0 THEN a ELSE -a
Reverse(s) == [i \in 1..Len(s) |-> s[Len(s) + 1 - i]]

-----------------------------------------------------------------------------
(* Bounds and input alphabets.                                              *)
MaxSegs == 3
MaxCloses == 2
MaxXid == 8
MaxFills == 3
MaxLinks == 2
MaxDraws == 2
MaxSteps == 4
MaxPoints == 4
MaxCoord == 2
MaxEdges == 2
MaxT == 3
MaxBoxes == 2
MaxUlps == 8
MaxWidth == 2
MaxCacheFills == 2
MaxPixel == 2
MaxLineWidth == 2
MaxSurfaceCalls == 4

Point(x, y) == [x |-> x, y |-> y]

StraightLine == [kind |-> "StraightLine", ctx1 |-> 0, cty1 |-> 0, ctx2 |-> 0, cty2 |-> 0]
BezierLink(c1x, c1y, c2x, c2y) ==
    [kind |-> "BezierCurve", ctx1 |-> c1x, cty1 |-> c1y, ctx2 |-> c2x, cty2 |-> c2y]

PathSegment(x, y, ty) == [x |-> x, y |-> y, ty |-> ty]

\* vertices and links the paths of the model are built from
VertexPoints == { Point(0, 0), Point(4, 0), Point(4, 4) }
LinkTypes == { StraightLine, BezierLink(4, 4, 0, 4) }
SegmentAlphabet == { PathSegment(p.x, p.y, ty) : p \in VertexPoints, ty \in LinkTypes }

SeqsUpTo(S, n) == UNION { [1..k -> S] : k \in 0..n }
Paths == SeqsUpTo(SegmentAlphabet, MaxSegs)

-----------------------------------------------------------------------------
(* BezierCurve (chalkboard-geometry/src/curve.rs).  f32 arithmetic is       *)
(* modelled in integers: distances in hundredths (floor), the sample at     *)
(* t = k/n as the exact rational rounded half away from zero (f32::round).  *)
(* On coordinates 0..4 this agrees with the f32 evaluation of the source.   *)
(* Coordinates of 2^24 and more lose their low bits in `as f32`; there the  *)
(* sum of eval_at is taken as correctly rounded, which is what the source   *)
(* computes at t = 1 (the last sample), while its earlier samples may lie   *)
(* one f32 spacing away.                                                    *)

RECURSIVE SqrtSearch(_, _, _)
SqrtSearch(n, lo, hi) ==
    \* the largest r in lo..hi with r*r <= n
    IF lo >= hi THEN lo
    ELSE LET mid == (lo + hi + 1) \div 2
         IN IF mid * mid <= n THEN SqrtSearch(n, mid, hi) ELSE SqrtSearch(n, lo, mid - 1)

ISqrt(n) == SqrtSearch(n, 0, 40000)

RECURSIVE F32Unit(_, _)
\* the spacing of the f32 values around the magnitude a >= 0: 1 below 2^24
F32Unit(a, u) == IF a < 16777216 * u THEN u ELSE F32Unit(a, 2 * u)

\* the multiple of u nearest to a >= 0, ties to the even multiple
RoundTiesEven(a, u) ==
    (IF 2 * (a % u) > u \/ (2 * (a % u) = u /\ (a \div u) % 2 = 1)
     THEN (a \div u) + 1 ELSE a \div u) * u

\* `i as f32` for an i32: the nearest value with a 24-bit significand, ties to
\* the even significand
as_f32(i) ==
    IF i >= 0 THEN RoundTiesEven(i, F32Unit(i, 1)) ELSE -RoundTiesEven(-i, F32Unit(-i, 1))

\* both coordinates of a point `as f32`
F32Point(p) == [f \in DOMAIN p |-> as_f32(p[f])]

\* (dx.powi(2) + dy.powi(2)).sqrt(), in hundredths
Hypot(p, q) == ISqrt(((p.x - q.x) * (p.x - q.x) + (p.y - q.y) * (p.y - q.y)) * 100 * 100)

\* Point::distance_to, in hundredths
distance_to(p, q) == Hypot(F32Point(p), F32Point(q))

BezierCurve(start, control1, control2, end) ==
    [start |-> start, control1 |-> control1, control2 |-> control2, end |-> end]

\* ((approx_length.powi(2) + 800.0).sqrt() / 8.0) as usize   -- `as` truncates
num_segments(c) ==
    LET approx_length == distance_to(c.start, c.control1)
                         + distance_to(c.control1, c.control2)
                         + distance_to(c.control2, c.end)
    IN ISqrt(approx_length * approx_length + 800 * 100 * 100) \div (8 * 100)

\* f32::round of num/den (den > 0): half away from zero
RoundDiv(num, den) ==
    LET a == Abs(num)
        r == (a \div den) + (IF 2 * (a % den) >= den THEN 1 ELSE 0)
    IN IF num >= 0 THEN r ELSE -r

\* one coordinate of eval_at(t) for t = k/n, from the coordinates `as f32`:
\* the sum as an f32, round(), `as i32`
Bernstein(s, c1, c2, e, k, n) ==
    as_f32(RoundDiv(s * (n - k) * (n - k) * (n - k) + 3 * c1 * (n - k) * (n - k) * k
                       + 3 * c2 * (n - k) * k * k + e * k * k * k,
                    n * n * n))

\* the four points of a curve `as f32`
F32Curve(c) == [f \in DOMAIN c |-> F32Point(c[f])]

\* the two coordinates of eval_at
EvalPoint(c, k, n) ==
    Point(Bernstein(c.start.x, c.control1.x, c.control2.x, c.end.x, k, n),
          Bernstein(c.start.y, c.control1.y, c.control2.y, c.end.y, k, n))

\* eval_at((i + 1) * interval) with interval = 1 / num_segments, i = k - 1
eval_at(c, k, n) == EvalPoint(F32Curve(c), k, n)

\* into_points(): the iterator (0..num_segments).map(eval_at); lo..hi is the Range
into_points(c) == [curve |-> c, n |-> num_segments(c), lo |-> 0, hi |-> num_segments(c)]

\* Map<Range>::next / next_back and size_hint
BezierHasNext(b) == b.lo < b.hi
BezierItem(b, from_front) ==
    IF from_front THEN eval_at(b.curve, b.lo + 1, b.n) ELSE eval_at(b.curve, b.hi, b.n)
BezierIndex(b, from_front) == IF from_front THEN b.lo + 1 ELSE b.hi
BezierAdvance(b, from_front) ==
    IF from_front THEN [b EXCEPT !.lo = b.lo + 1] ELSE [b EXCEPT !.hi = b.hi - 1]
\* BezierSizeHint with the bug of reporting the curve's whole length
BezierSizeHint_total(b) == b.n
BezierSizeHint(b) == IF b.hi > b.lo THEN b.hi - b.lo ELSE 0

-----------------------------------------------------------------------------
(* PathSegmentsToPoints (chalkboard-geometry/src/path.rs).                  *)
(* An iterator value `it` is the record of the struct's fields; a buffered  *)
(* segment carries the index it has in the path and a curve iterator the    *)
(* indices of the segments whose data it was built from (bookkeeping only). *)

\* path_segments_to_points(segments)
path_segments_to_points(segs) ==
    [ lo |-> 0, hi |-> Len(segs),
      front_bezier_curve_iter |-> None, back_bezier_curve_iter |-> None,
      front_prev_segment |-> None, back_prev_segment |-> None ]

\* the accessors that swap the two ends when pulling from the back
front_bezier_field(from_front) ==
    IF from_front THEN "front_bezier_curve_iter" ELSE "back_bezier_curve_iter"
back_bezier_field(from_front) ==
    IF from_front THEN "back_bezier_curve_iter" ELSE "front_bezier_curve_iter"
front_prev_field(from_front) ==
    IF from_front THEN "front_prev_segment" ELSE "back_prev_segment"
back_prev_field(from_front) ==
    IF from_front THEN "back_prev_segment" ELSE "front_prev_segment"

\* what a pull returns: the point and where it came from
VertexItem(slot) ==
    [ pt |-> Point(slot.seg.x, slot.seg.y),
      origin |-> [kind |-> "vertex", seg |-> slot.idx, k |-> 0],
      logical |-> [kind |-> "vertex", seg |-> slot.idx, k |-> 0] ]
CurveItem(b, from_front) ==
    LET k == BezierIndex(b, from_front)
    IN [ pt |-> BezierItem(b, from_front),
         origin |-> [kind |-> "curve", seg |-> b.from, k |-> k],
         logical |-> IF k = b.n THEN [kind |-> "vertex", seg |-> b.to, k |-> 0]
                     ELSE [kind |-> "curve", seg |-> b.from, k |-> k] ]

\* Fuse<I>::next / next_back on the slice iterator
InnerExhausted(it) == it.lo >= it.hi
InnerIndex(it, from_front) == IF from_front THEN it.lo + 1 ELSE it.hi
InnerAdvance(it, from_front) ==
    IF from_front THEN [it EXCEPT !.lo = it.lo + 1] ELSE [it EXCEPT !.hi = it.hi - 1]

\* next_impl_exhausted with the bug of not flushing this end's buffered segment
next_impl_exhausted_noflush(it, from_front) ==
    LET bp == it[back_prev_field(from_front)]
    IN [it |-> [it EXCEPT ![back_prev_field(from_front)] = None],
        ret |-> IF IsSome(bp) THEN Some(VertexItem(Unwrap(bp))) ELSE None]

\* next_impl_exhausted with the bug of looking at this end's buffered segment only
next_impl_exhausted_own_end(it, from_front) ==
    LET fp == it[front_prev_field(from_front)]
    IN [it |-> [it EXCEPT ![front_prev_field(from_front)] = None],
        ret |-> IF IsSome(fp) THEN Some(VertexItem(Unwrap(fp))) ELSE None]

\* the None arm of `match iter_next(..)`: flush what is still buffered
next_impl_exhausted(it, from_front) ==
    LET fp == it[front_prev_field(from_front)]
        bb == it[back_bezier_field(from_front)]
        bp == it[back_prev_field(from_front)]
        it1 == [it EXCEPT ![front_prev_field(from_front)] = None]   \* .take()
    IN IF IsSome(fp)
       THEN [it |-> it1, ret |-> Some(VertexItem(Unwrap(fp)))]
       ELSE IF IsSome(bb) /\ BezierHasNext(Unwrap(bb))
       THEN [it |-> [it1 EXCEPT ![back_bezier_field(from_front)] =
                                    Some(BezierAdvance(Unwrap(bb), from_front))],
             ret |-> Some(CurveItem(Unwrap(bb), from_front))]
       ELSE [it |-> [it1 EXCEPT ![back_prev_field(from_front)] = None],
             ret |-> IF IsSome(bp) THEN Some(VertexItem(Unwrap(bp))) ELSE None]

\* the curve built when the buffered segment's link is a bezier curve
curve_between(prev_seg, seg) ==
    BezierCurve(Point(prev_seg.x, prev_seg.y),
                Point(prev_seg.ty.ctx1, prev_seg.ty.cty1),
                Point(prev_seg.ty.ctx2, prev_seg.ty.cty2),
                Point(seg.x, seg.y))

RECURSIVE next_impl(_, _, _)
next_impl(segs, it, from_front) ==
    LET fb == it[front_bezier_field(from_front)]
    IN IF IsSome(fb) /\ BezierHasNext(Unwrap(fb))
       THEN [it |-> [it EXCEPT ![front_bezier_field(from_front)] =
                                   Some(BezierAdvance(Unwrap(fb), from_front))],
             ret |-> Some(CurveItem(Unwrap(fb), from_front))]
       ELSE
       LET it1 == [it EXCEPT ![front_bezier_field(from_front)] = None]
       IN IF InnerExhausted(it1)
          THEN next_impl_exhausted(it1, from_front)
          ELSE
          LET idx == InnerIndex(it1, from_front)
              seg == segs[idx]
              prev == it1[front_prev_field(from_front)]
              it2 == [InnerAdvance(it1, from_front)
                        EXCEPT ![front_prev_field(from_front)] =
                                   Some([seg |-> seg, idx |-> idx])]   \* .replace(seg)
          IN IF IsNone(prev)
             THEN next_impl(segs, it2, from_front)                      \* continue
             ELSE IF Unwrap(prev).seg.ty.kind = "StraightLine"
             THEN [it |-> it2, ret |-> Some(VertexItem(Unwrap(prev)))]
             ELSE LET b == into_points(curve_between(Unwrap(prev).seg, seg))
                      i == [curve |-> b.curve, n |-> b.n, lo |-> b.lo, hi |-> b.hi,
                            from |-> Unwrap(prev).idx, to |-> idx]
                  IN next_impl(segs,
                               [it2 EXCEPT ![front_bezier_field(from_front)] = Some(i)],
                               from_front)

\* Iterator::size_hint().0
size_hint(it) ==
    LET inner == IF it.hi > it.lo THEN it.hi - it.lo ELSE 0
        lower1 == IF IsNone(it.front_prev_segment) THEN Max(inner - 1, 0) ELSE inner
    IN IF IsSome(it.front_bezier_curve_iter)
       THEN lower1 + BezierSizeHint(Unwrap(it.front_bezier_curve_iter))
       ELSE lower1

\* the iterator value held in the variables
TheIter ==
    [ lo |-> inner_lo, hi |-> inner_hi,
      front_bezier_curve_iter |-> front_bezier_curve_iter,
      back_bezier_curve_iter |-> back_bezier_curve_iter,
      front_prev_segment |-> front_prev_segment,
      back_prev_segment |-> back_prev_segment ]

StoreIter(it) ==
    /\ inner_lo' = it.lo
    /\ inner_hi' = it.hi
    /\ front_bezier_curve_iter' = it.front_bezier_curve_iter
    /\ back_bezier_curve_iter' = it.back_bezier_curve_iter
    /\ front_prev_segment' = it.front_prev_segment
    /\ back_prev_segment' = it.back_prev_segment

\* the points a fresh traversal of segs yields from the front alone
RECURSIVE Drain(_, _, _)
Drain(segs, it, from_front) ==
    LET r == next_impl(segs, it, from_front)
    IN IF IsNone(r.ret) THEN << >> ELSE << Unwrap(r.ret) >> \o Drain(segs, r.it, from_front)

FrontOnly(segs) == Drain(segs, path_segments_to_points(segs), TRUE)
BackOnly(segs) == Drain(segs, path_segments_to_points(segs), FALSE)

Pts(items) == [i \in 1..Len(items) |-> items[i].pt]

Emitted == Len(front_out) + Len(back_out)

\* the traversal of path `segs`, as path_segments_to_points returns it
PathIterStart(segs) ==
    LET it == path_segments_to_points(segs)
    IN /\ segments = segs
       /\ inner_lo = it.lo
       /\ inner_hi = it.hi
       /\ front_bezier_curve_iter = it.front_bezier_curve_iter
       /\ back_bezier_curve_iter = it.back_bezier_curve_iter
       /\ front_prev_segment = it.front_prev_segment
       /\ back_prev_segment = it.back_prev_segment
       /\ front_out = << >>
       /\ back_out = << >>
       /\ front_none = FALSE
       /\ back_none = FALSE
       /\ revived = FALSE
       /\ promise = size_hint(it)

PathIterIdle == PathIterStart(<< >>)

\* Iterator::next
IterNext ==
    LET r == next_impl(segments, TheIter, TRUE)
    IN /\ StoreIter(r.it)
       /\ front_out' = IF IsSome(r.ret) THEN Append(front_out, Unwrap(r.ret)) ELSE front_out
       /\ front_none' = (front_none \/ IsNone(r.ret))
       /\ revived' = (revived \/ ((front_none \/ back_none) /\ IsSome(r.ret)))
       /\ promise' = Max(promise, size_hint(r.it) + Len(front_out') + Len(back_out))
       /\ UNCHANGED << segments, back_out, back_none >>

\* DoubleEndedIterator::next_back
IterNextBack ==
    LET r == next_impl(segments, TheIter, FALSE)
    IN /\ StoreIter(r.it)
       /\ back_out' = IF IsSome(r.ret) THEN Append(back_out, Unwrap(r.ret)) ELSE back_out
       /\ back_none' = (back_none \/ IsNone(r.ret))
       /\ revived' = (revived \/ ((front_none \/ back_none) /\ IsSome(r.ret)))
       /\ promise' = Max(promise, size_hint(r.it) + Len(front_out) + Len(back_out'))
       /\ UNCHANGED << segments, front_out, front_none >>

-----------------------------------------------------------------------------
(* Path::close and PathSlice::is_meaningless.                               *)

\* is_meaningless with the bug of treating a one-segment path as drawable
is_meaningless_strict(segs) == Len(segs) < 1
\* PathSlice::is_meaningless
is_meaningless(segs) == Len(segs) <= 1

\* Path::close with the bug of not looking whether the path already ends at its start
close_always(segs) ==
    IF is_meaningless(segs) \/ Len(segs) = 0 THEN segs
    ELSE Append([segs EXCEPT ![Len(segs)].ty = StraightLine],
                PathSegment(segs[1].x, segs[1].y, StraightLine))

\* Path::close with the bug of closing at the last segment's point
close_at_last(segs) ==
    IF is_meaningless(segs) \/ Len(segs) = 0 THEN segs
    ELSE LET first == segs[1]
             last == segs[Len(segs)]
         IN IF first.x # last.x \/ first.y # last.y
            THEN Append([segs EXCEPT ![Len(segs)].ty = StraightLine],
                        PathSegment(last.x, last.y, StraightLine))
            ELSE segs

\* Path::close: the segments afterwards
close(segs) ==
    IF is_meaningless(segs) \/ Len(segs) = 0 THEN segs
    ELSE LET first == segs[1]
             last == segs[Len(segs)]
         IN IF first.x # last.x \/ first.y # last.y
            THEN Append([segs EXCEPT ![Len(segs)].ty = StraightLine],
                        PathSegment(first.x, first.y, StraightLine))
            ELSE segs

\* Path::close panics when segments.first().unwrap() finds no segment
close_panics(segs) == ~is_meaningless(segs) /\ Len(segs) = 0

CloseIdle ==
    path = << >> /\ path_before = << >> /\ close_calls = 0 /\ close_result = "none"

\* Path::close
Close ==
    /\ close_calls < MaxCloses
    /\ path_before' = path
    /\ path' = close(path)
    /\ close_result' = IF close_panics(path) THEN "panic" ELSE "ok"
    /\ close_calls' = close_calls + 1

\* Path::push
Push(seg) ==
    /\ Len(path) < MaxSegs
    /\ path' = Append(path, seg)
    /\ close_calls' = 0
    /\ close_result' = "none"
    /\ UNCHANGED path_before

-----------------------------------------------------------------------------
(* Line and polyline (chalkboard-geometry/src/lib.rs).                       *)

Line(x1, y1, x2, y2) == [x1 |-> x1, y1 |-> y1, x2 |-> x2, y2 |-> y2]
point1(line) == Point(line.x1, line.y1)
point2(line) == Point(line.x2, line.y2)

\* Line::from_points
from_points(p1, p2) == Line(p1.x, p1.y, p2.x, p2.y)

\* the closure given to scan() with the bug of keeping the first point as last_point
scan_step_keep(last, current_point) ==
    [last_point |-> IF IsSome(last) THEN last ELSE Some(current_point),
     item |-> IF IsSome(last) THEN Some(from_points(Unwrap(last), current_point))
              ELSE None]

\* the closure given to scan(): last_point.replace(current_point).map(...)
scan_step(last, current_point) ==
    [last_point |-> Some(current_point),
     item |-> IF IsSome(last) THEN Some(from_points(Unwrap(last), current_point))
              ELSE None]

\* Flatten<Scan<..>>::next: pull points until the closure gives a line or the
\* points run out
RECURSIVE polyline_next(_, _, _)
polyline_next(points, pos, last) ==
    IF pos >= Len(points)
    THEN [item |-> None, pos |-> pos, last_point |-> last]
    ELSE LET r == scan_step(last, points[pos + 1])
         IN IF IsSome(r.item)
            THEN [item |-> r.item, pos |-> pos + 1, last_point |-> r.last_point]
            ELSE polyline_next(points, pos + 1, r.last_point)

\* polyline(points): nothing pulled yet
PolylineStart(points) ==
    /\ poly_points = points
    /\ poly_pos = 0
    /\ last_point = None
    /\ poly_lines = << >>
    /\ poly_done = FALSE

PolylineIdle == PolylineStart(<< >>)

\* one next() on the iterator polyline() returned
PolylineNext ==
    /\ ~poly_done
    /\ LET r == polyline_next(poly_points, poly_pos, last_point)
       IN /\ poly_pos' = r.pos
          /\ last_point' = r.last_point
          /\ poly_lines' = IF IsSome(r.item) THEN Append(poly_lines, Unwrap(r.item))
                           ELSE poly_lines
          /\ poly_done' = IsNone(r.item)
    /\ UNCHANGED poly_points

\* BezierCurve::into_points(): nothing pulled yet
CurveStart(c) ==
    /\ curve = c
    /\ curve_iter = into_points(c)
    /\ curve_out = << >>
    /\ curve_done = FALSE

CurveIdle ==
    CurveStart(BezierCurve(Point(0, 0), Point(0, 0), Point(0, 0), Point(0, 0)))

\* one next() on the iterator into_points() returned
CurveNext ==
    /\ ~curve_done
    /\ IF BezierHasNext(curve_iter)
       THEN /\ curve_out' = Append(curve_out, BezierItem(curve_iter, TRUE))
            /\ curve_iter' = BezierAdvance(curve_iter, TRUE)
            /\ curve_done' = FALSE
       ELSE /\ curve_done' = TRUE
            /\ UNCHANGED << curve_out, curve_iter >>
    /\ UNCHANGED curve

\* Orientation::get (products of i32 coordinates far from overflow)
Orientation_get(p1, p2, p3) ==
    LET d == ((p2.y - p1.y) * (p3.x - p1.x)) - ((p2.x - p1.x) * (p3.y - p1.y))
    IN IF d = 0 THEN "Colinear" ELSE IF d > 0 THEN "Clockwise" ELSE "Counterclockwise"

\* Line::contains_point; the last comparison reads x1 and x2
contains_point(line, point) ==
    /\ point.x <= Max(line.x1, line.x2)
    /\ point.x >= (IF line.x1 <= line.x2 THEN line.x1 ELSE line.x2)
    /\ point.y <= Max(line.y1, line.y2)
    /\ point.y >= (IF line.x1 <= line.x2 THEN line.x1 ELSE line.x2)

\* Line::intersection; p4 is other.point1()
intersection(self, other) ==
    LET p1 == point1(self)
        p2 == point2(self)
        p3 == point1(other)
        p4 == point1(other)
        o1 == Orientation_get(p1, p2, p3)
        o2 == Orientation_get(p1, p2, p4)
        o3 == Orientation_get(p3, p4, p1)
        o4 == Orientation_get(p3, p4, p2)
    IN \/ (o1 # o2 /\ o3 # o4)
       \/ (o1 = "Colinear" /\ contains_point(self, p3))
       \/ (o2 = "Colinear" /\ contains_point(self, p4))
       \/ (o3 = "Colinear" /\ contains_point(other, p1))
       \/ (o4 = "Colinear" /\ contains_point(other, p2))

LineStart(a, b) ==
    /\ line_self = a
    /\ line_other = b
    /\ intersection_result = None

LineIdle == LineStart(Line(0, 0, 0, 0), Line(0, 0, 0, 0))

\* self.intersection(other)
Intersect ==
    /\ IsNone(intersection_result)
    /\ intersection_result' = Some(intersection(line_self, line_other))
    /\ UNCHANGED << line_self, line_other >>

-----------------------------------------------------------------------------
(* f32 values of the polygon code: finite values counted in halves of       *)
(* f32::EPSILON (differences of the small values used are exact), the two   *)
(* infinities and NaN.                                                      *)

Fin(v) == [k |-> "fin", v |-> v]
Inf(sign) == [k |-> "inf", v |-> sign]
NaN == [k |-> "nan", v |-> 0]
F32Epsilon == Fin(2)
F32Zero == Fin(0)

f32_neg(a) == IF a.k = "nan" THEN a ELSE [a EXCEPT !.v = -a.v]
f32_sub(a, b) ==
    CASE a.k = "nan" \/ b.k = "nan" -> NaN
      [] a.k = "inf" /\ b.k = "inf" -> IF a.v = b.v THEN NaN ELSE a
      [] a.k = "inf" -> a
      [] b.k = "inf" -> f32_neg(b)
      [] OTHER -> Fin(a.v - b.v)
f32_abs(a) == IF a.k = "nan" THEN a ELSE [a EXCEPT !.v = Abs(a.v)]
\* a < b; every comparison with NaN is false
f32_lt(a, b) ==
    CASE a.k = "nan" \/ b.k = "nan" -> FALSE
      [] a.k = "inf" /\ b.k = "inf" -> a.v < b.v
      [] a.k = "inf" -> a.v < 0
      [] b.k = "inf" -> b.v > 0
      [] OTHER -> a.v < b.v
f32_eq(a, b) == a.k # "nan" /\ b.k # "nan" /\ a = b
f32_ge(a, b) == f32_lt(b, a) \/ f32_eq(a, b)
is_finite(a) == a.k = "fin"

-----------------------------------------------------------------------------
(* Polygon and Edge (chalkboard-geometry/src/polygon.rs, util.rs).           *)

Point2D(x, y) == [x |-> x, y |-> y]

\* approx_eq with the bug of never finding two values equal
approx_eq_never(a, b) == FALSE
\* approx_eq: (a - b).abs() < epsilon
approx_eq(a, b) == f32_lt(f32_abs(f32_sub(a, b)), F32Epsilon)

\* Edge::new
Edge_new(p1, p2) ==
    [line |-> [point |-> p1,
               vector |-> Point2D(f32_sub(p2.x, p1.x), f32_sub(p2.y, p1.y))],
     top |-> IF f32_lt(p1.y, p2.y) THEN p1.y ELSE p2.y,
     bottom |-> IF f32_lt(p1.y, p2.y) THEN p2.y ELSE p1.y,
     direction |-> "Forward"]

\* Polygon::add_edge: the edges afterwards
add_edge(edges, p1, p2) ==
    LET edge == Edge_new(p1, p2)
    IN IF f32_ge(f32_abs(edge.line.vector.y), F32Epsilon) THEN Append(edges, edge)
       ELSE edges

\* FromIterator<Edge<f32>> for Polygon: filter(!approx_eq(vector.y, 0.0)).collect()
KeptByFromIter(edge) == ~approx_eq(edge.line.vector.y, F32Zero)
polygon_from_iter(edge_seq) == SelectSeq(edge_seq, KeptByFromIter)

\* the path events of one sub-path through `points`: Begin, a Line per pair, End
PathEvents(points, closed) ==
    << [kind |-> "Begin", a |-> points[1], b |-> points[1], close |-> FALSE] >>
    \o [i \in 1..(Len(points) - 1) |->
           [kind |-> "Line", a |-> points[i], b |-> points[i + 1], close |-> FALSE]]
    \o << [kind |-> "End", a |-> points[Len(points)], b |-> points[1], close |-> closed] >>

\* the filter_map of from_iter_with_tolerance on flattened events: the
\* candidate edges, Begin giving none (flattened() passes Begin, Line and End on)
RECURSIVE EventEdges(_)
EventEdges(events) ==
    IF events = << >> THEN << >>
    ELSE LET ev == Head(events)
         IN (IF ev.kind = "Begin" THEN << >> ELSE << Edge_new(ev.a, ev.b) >>)
               \o EventEdges(Tail(events))

\* Polygon::from_iter_with_tolerance
from_iter_with_tolerance(events) == polygon_from_iter(EventEdges(events))

PolygonIdle == polygon = None /\ polygon_built = "none" /\ offered = << >>

\* Polygon::default()
PolygonDefault ==
    /\ IsNone(polygon)
    /\ polygon' = Some([edges |-> << >>])
    /\ polygon_built' = "default"
    /\ offered' = << >>

\* polygon.add_edge(p1, p2)
PolygonAddEdge(p1, p2) ==
    /\ IsSome(polygon)
    /\ Len(Unwrap(polygon).edges) < MaxEdges
    /\ polygon' = Some([edges |-> add_edge(Unwrap(polygon).edges, p1, p2)])
    /\ offered' = << Edge_new(p1, p2) >>
    /\ UNCHANGED polygon_built

\* edges.into_iter().collect::<Polygon>()
PolygonFromEdges(edge_seq) ==
    /\ IsNone(polygon)
    /\ polygon' = Some([edges |-> polygon_from_iter(edge_seq)])
    /\ polygon_built' = "edges"
    /\ offered' = edge_seq

\* events.collect::<Polygon>(), Polygon::from_iter_with_tolerance(events, tolerance)
PolygonFromEvents(points, closed) ==
    /\ IsNone(polygon)
    /\ polygon' = Some([edges |-> from_iter_with_tolerance(PathEvents(points, closed))])
    /\ polygon_built' = "events"
    /\ offered' = EventEdges(PathEvents(points, closed))

-----------------------------------------------------------------------------
(* Trapezoid::from_triangle and Thrice (chalkboard-geometry/src/trap.rs,     *)
(* thrice.rs).                                                               *)

Triangle(a, b, c) == [a |-> a, b |-> b, c |-> c]
LineF(point, vector) == [point |-> point, vector |-> vector]
Trapezoid(top, bottom, left, right) ==
    [top |-> top, bottom |-> bottom, left |-> left, right |-> right]
point_sub(p, q) == Point2D(f32_sub(p.x, q.x), f32_sub(p.y, q.y))

\* Trapezoid::tri
tri(off_pt, eq_pt1, eq_pt2) ==
    LET off_on_top == f32_lt(off_pt.y, eq_pt1.y)
        top == IF off_on_top THEN off_pt ELSE eq_pt1
        bottom == IF off_on_top THEN eq_pt1 ELSE off_pt
        eq1_left == f32_lt(eq_pt1.x, eq_pt2.x)
        left_pt == IF eq1_left THEN eq_pt1 ELSE eq_pt2
        right_pt == IF eq1_left THEN eq_pt2 ELSE eq_pt1
    IN Trapezoid(top.y, bottom.y, LineF(off_pt, point_sub(left_pt, off_pt)),
                 LineF(off_pt, point_sub(right_pt, off_pt)))

\* the tuple from_triangle matches on, with the bug of comparing y exactly
y_pattern_exact(t) == << f32_eq(t.a.y, t.b.y), f32_eq(t.b.y, t.c.y), f32_eq(t.c.y, t.a.y) >>
\* the tuple from_triangle matches on
y_pattern(t) ==
    << approx_eq(t.a.y, t.b.y), approx_eq(t.b.y, t.c.y), approx_eq(t.c.y, t.a.y) >>

\* pt1.y.partial_cmp(&pt2.y).unwrap() panics on a NaN
sort_panics(t) == t.a.y.k = "nan" \/ t.b.y.k = "nan" \/ t.c.y.k = "nan"

\* pts.sort_unstable_by(y): the points in the order top, middle, bottom
sorted_by_y(t) ==
    CHOOSE pts \in { << t.a, t.b, t.c >>, << t.a, t.c, t.b >>, << t.b, t.a, t.c >>,
                     << t.b, t.c, t.a >>, << t.c, t.a, t.b >>, << t.c, t.b, t.a >> } :
        ~f32_lt(pts[2].y, pts[1].y) /\ ~f32_lt(pts[3].y, pts[2].y)

\* line.equation().solve_x_for_y(y): None for a horizontal line; the quotient
\* is rounded to the grid of the model's values
solve_x_for_y(line, y) ==
    IF f32_eq(line.vector.y, F32Zero) THEN None
    ELSE Some(Fin(line.point.x.v
                  + RoundDiv((y.v - line.point.y.v) * line.vector.x.v, line.vector.y.v)))

\* Trapezoid::from_triangle: how it ends and the Thrice it returns
from_triangle(t) ==
    LET pat == y_pattern(t)
    IN CASE pat = << TRUE, TRUE, TRUE >> -> [call |-> "returned", thrice |-> << >>]
         [] pat = << TRUE, FALSE, FALSE >> ->
                [call |-> "returned", thrice |-> << tri(t.c, t.a, t.b) >>]
         [] pat = << FALSE, TRUE, FALSE >> ->
                [call |-> "returned", thrice |-> << tri(t.a, t.b, t.c) >>]
         [] pat = << FALSE, FALSE, TRUE >> ->
                [call |-> "returned", thrice |-> << tri(t.b, t.c, t.a) >>]
         [] OTHER ->
                IF sort_panics(t) THEN [call |-> "panic", thrice |-> << >>]
                ELSE LET pts == sorted_by_y(t)
                         top == pts[1]
                         middle == pts[2]
                         bottom == pts[3]
                         divider_x == solve_x_for_y(LineF(top, point_sub(bottom, top)),
                                                    middle.y)
                     IN IF IsNone(divider_x) THEN [call |-> "panic", thrice |-> << >>]
                        ELSE LET divider == Point2D(Unwrap(divider_x), middle.y)
                             IN [call |-> "returned",
                                 thrice |-> << tri(top, middle, divider),
                                               tri(bottom, middle, divider) >>]

TrapStart(t) ==
    /\ triangle = t
    /\ trap_call = "none"
    /\ trap_count = 0
    /\ thrice = << >>
    /\ trap_out = << >>

TrapIdle ==
    TrapStart(Triangle(Point2D(Fin(0), Fin(0)), Point2D(Fin(0), Fin(0)),
                       Point2D(Fin(0), Fin(0))))

\* Trapezoid::from_triangle(triangle)
FromTriangle ==
    /\ trap_call = "none"
    /\ LET r == from_triangle(triangle)
       IN /\ trap_call' = r.call
          /\ thrice' = r.thrice
          /\ trap_count' = Len(r.thrice)          \* ExactSizeIterator::len
    /\ UNCHANGED << triangle, trap_out >>

\* Thrice::next
ThriceNext ==
    /\ trap_call = "returned"
    /\ thrice # << >>
    /\ trap_out' = Append(trap_out, Head(thrice))
    /\ thrice' = Tail(thrice)
    /\ UNCHANGED << triangle, trap_call, trap_count >>

\* Thrice::next_back
ThriceNextBack ==
    /\ trap_call = "returned"
    /\ thrice # << >>
    /\ trap_out' = Append(trap_out, thrice[Len(thrice)])
    /\ thrice' = SubSeq(thrice, 1, Len(thrice) - 1)
    /\ UNCHANGED << triangle, trap_call, trap_count >>

-----------------------------------------------------------------------------
(* Region (chalkboard-geometry/src/region.rs), over an integer type T with   *)
(* the values -MaxT - 1 .. MaxT.                                             *)

T_min_value == -MaxT - 1
T_max_value == MaxT

Box2D(min, max) == [min |-> min, max |-> max]

\* default_bounds
default_bounds == Box2D(Point2D(T_min_value, T_min_value), Point2D(T_max_value, T_max_value))

\* add_to_bounds with the bug of taking the new box's corners as they are
add_to_bounds_replace(bounds, new) == new
\* add_to_bounds
add_to_bounds(bounds, new) ==
    Box2D(Point2D(IF new.min.x < bounds.min.x THEN new.min.x ELSE bounds.min.x,
                  IF new.min.y < bounds.min.y THEN new.min.y ELSE bounds.min.y),
          Point2D(IF new.max.x > bounds.max.x THEN new.max.x ELSE bounds.max.x,
                  IF new.max.y > bounds.max.y THEN new.max.y ELSE bounds.max.y))

\* Extend::extend: inspect() hands every box to add_to_bounds as it is pushed
RECURSIVE extend_bounds(_, _)
extend_bounds(bounds, box_seq) ==
    IF box_seq = << >> THEN bounds
    ELSE extend_bounds(add_to_bounds(bounds, Head(box_seq)), Tail(box_seq))

\* Region::default()
RegionIdle ==
    /\ region_bounds = default_bounds
    /\ region_boxes = << >>
    /\ bounds_before = default_bounds
    /\ region_op = "default"

\* Region::add
RegionAdd(box_) ==
    /\ Len(region_boxes) < MaxBoxes
    /\ region_bounds' = add_to_bounds(region_bounds, box_)      \* accomodate
    /\ region_boxes' = Append(region_boxes, box_)
    /\ bounds_before' = region_bounds
    /\ region_op' = "add"

\* Extend::extend
RegionExtend(box_seq) ==
    /\ Len(region_boxes) + Len(box_seq) <= MaxBoxes
    /\ region_bounds' = extend_bounds(region_bounds, box_seq)
    /\ region_boxes' = region_boxes \o box_seq
    /\ bounds_before' = region_bounds
    /\ region_op' = "extend"

\* FromIterator::from_iter: a default region, extended
RegionFromIter(box_seq) ==
    /\ region_op = "default"
    /\ region_bounds' = extend_bounds(default_bounds, box_seq)
    /\ region_boxes' = box_seq
    /\ bounds_before' = default_bounds
    /\ region_op' = "from_iter"

GeomIdle == PolylineIdle /\ CurveIdle /\ LineIdle /\ PolygonIdle /\ TrapIdle /\ RegionIdle

-----------------------------------------------------------------------------
(* Intensity::new and into_inner, in both crates                            *)
(* (chalkboard-geometry/src/intensity.rs, src/intensity.rs).  The f32       *)
(* values are the ones above; 1.0 is 2^24 halves of f32::EPSILON.           *)

F32One == Fin(16777216)

is_nan(a) == a.k = "nan"
f32_gt(a, b) == f32_lt(b, a)
f32_le(a, b) == f32_lt(a, b) \/ f32_eq(a, b)

\* (0.0..=1.0).contains(&value)
range_contains(value) == f32_le(F32Zero, value) /\ f32_le(value, F32One)

\* approx::abs_diff_eq!(a, b): |a - b| <= f32::EPSILON
abs_diff_eq(a, b) ==
    f32_le(IF f32_gt(a, b) THEN f32_sub(a, b) ELSE f32_sub(b, a), F32Epsilon)

\* Intensity { inner: NotNan<f32> }
Intensity(inner) == [inner |-> inner]

\* chalkboard-geometry: Intensity::new
geometry_intensity_new(inner) ==
    IF is_nan(inner) \/ f32_lt(inner, F32Zero) \/ f32_gt(inner, F32One)
    THEN None
    ELSE Some(Intensity(inner))

\* chalkboard: Intensity::new
intensity_new(value) ==
    IF (range_contains(value) \/ abs_diff_eq(value, F32One) \/ abs_diff_eq(value, F32Zero))
       /\ ~is_nan(value)
    THEN Some(Intensity(value))
    ELSE None

\* Intensity::into_inner
into_inner(i) == i.inner

IntensityStart(x) ==
    /\ intensity_arg = x
    /\ intensity_impl = "none"
    /\ intensity_result = None
    /\ inner_result = None

IntensityIdle == IntensityStart(F32Zero)

\* chalkboard_geometry::Intensity::new(intensity_arg)
GeometryIntensityNew ==
    /\ intensity_impl = "none"
    /\ intensity_impl' = "geometry"
    /\ intensity_result' = geometry_intensity_new(intensity_arg)
    /\ UNCHANGED << intensity_arg, inner_result >>

\* chalkboard::Intensity::new(intensity_arg)
IntensityNew ==
    /\ intensity_impl = "none"
    /\ intensity_impl' = "chalkboard"
    /\ intensity_result' = intensity_new(intensity_arg)
    /\ UNCHANGED << intensity_arg, inner_result >>

\* .unwrap().into_inner() on the value new() returned
IntoInner ==
    /\ IsSome(intensity_result)
    /\ IsNone(inner_result)
    /\ inner_result' = Some(into_inner(Unwrap(intensity_result)))
    /\ UNCHANGED << intensity_arg, intensity_impl, intensity_result >>

-----------------------------------------------------------------------------
(* outline (chalkboard-geometry/src/outline.rs) and PathSlice::outline       *)
(* (path.rs).  Line::angle, Point + Point and Point * i32 are used by        *)
(* outline.rs and defined nowhere in the sources at hand: the angle of a     *)
(* line is its direction angle atan2(dy, dx), kept here as the direction     *)
(* (dx, dy) it points in ((1, 0) for a line without length, atan2(0, 0)      *)
(* being 0), and the two operators work by coordinates.  cos and sin of the  *)
(* angle plus a quarter circle are -dy/len and dx/len; `as i32` truncates    *)
(* towards zero.  On axis-parallel lines the f32 products are exact or       *)
(* below 1e-6, on the other lines of the grid they are irrational and far    *)
(* from an integer, so the truncation is the one of the exact value.         *)

\* Line::angle: the direction of the line
angle(line) ==
    IF line.x1 = line.x2 /\ line.y1 = line.y2 THEN Point(1, 0)
    ELSE Point(line.x2 - line.x1, line.y2 - line.y1)

\* Point + Point, Point * i32
point_add(p, q) == Point(p.x + q.x, p.y + q.y)
point_mul(p, m) == Point(p.x * m, p.y * m)

\* (a / |d| * lw) as i32 for a coordinate a of the direction d
TruncScaled(a, d, lw) ==
    (IF a >= 0 THEN 1 ELSE -1) * ISqrt((a * lw * a * lw) \div (d.x * d.x + d.y * d.y))

\* point_change with the bug of displacing by the direction itself, not by
\* its unit vector
point_change_unnormalised(line, lw) ==
    Point(-angle(line).y * lw, angle(line).x * lw)
\* point_change
point_change(line, lw) ==
    Point(TruncScaled(-angle(line).y, angle(line), lw),
          TruncScaled(angle(line).x, angle(line), lw))

\* Peekable<I> over polyline(points): the iterator and the peeked item
Peekable(points) == [points |-> points, pos |-> 0, last_point |-> None, peeked |-> None]

\* Peekable::peek: the peeked item (an Option<Line>) and the iterator afterwards
peek(lines) ==
    IF IsSome(lines.peeked) THEN [item |-> Unwrap(lines.peeked), lines |-> lines]
    ELSE LET r == polyline_next(lines.points, lines.pos, lines.last_point)
         IN [item |-> r.item,
             lines |-> [lines EXCEPT !.pos = r.pos, !.last_point = r.last_point,
                                     !.peeked = Some(r.item)]]

\* Peekable::next
peekable_next(lines) ==
    IF IsSome(lines.peeked)
    THEN [item |-> Unwrap(lines.peeked), lines |-> [lines EXCEPT !.peeked = None]]
    ELSE LET r == polyline_next(lines.points, lines.pos, lines.last_point)
         IN [item |-> r.item,
             lines |-> [lines EXCEPT !.pos = r.pos, !.last_point = r.last_point]]

\* outline_inner: the Outliner it returns
outline_inner(points, line_width, multiplier) ==
    [lines |-> Peekable(points), is_first_line |-> TRUE, line_width |-> line_width,
     multiplier |-> multiplier]

\* what the Outliner makes of a line: the point, and for the record the line,
\* the end of it that was displaced and the pass
Emit(o, line, base) ==
    [pt |-> point_add(base, point_mul(point_change(line, o.line_width), o.multiplier)),
     line |-> line, base |-> base, multiplier |-> o.multiplier]

\* Outliner::next
Outliner_next(o) ==
    IF o.is_first_line
    THEN LET r == peek(o.lines)
             o2 == [o EXCEPT !.is_first_line = FALSE, !.lines = r.lines]
         IN IF IsNone(r.item) THEN [item |-> None, o |-> o2]
            ELSE [item |-> Some(Emit(o, Unwrap(r.item), point1(Unwrap(r.item)))), o |-> o2]
    ELSE LET r == peekable_next(o.lines)
             o2 == [o EXCEPT !.lines = r.lines]
         IN IF IsNone(r.item) THEN [item |-> None, o |-> o2]
            ELSE [item |-> Some(Emit(o, Unwrap(r.item), point2(Unwrap(r.item)))), o |-> o2]

\* outline(points, line_width): the two passes, chained
outline(points, line_width) ==
    [a |-> Some(outline_inner(points, line_width, 1)),
     b |-> Some(outline_inner(Reverse(points), line_width, -1))]

\* Chain::next: the first iterator until it returns None, then the second
chain_b_next(ch) ==
    LET r == Outliner_next(Unwrap(ch.b))
    IN [item |-> r.item, ch |-> [ch EXCEPT !.b = Some(r.o)]]
chain_next(ch) ==
    IF IsSome(ch.a)
    THEN LET r == Outliner_next(Unwrap(ch.a))
         IN IF IsSome(r.item) THEN [item |-> r.item, ch |-> [ch EXCEPT !.a = Some(r.o)]]
            ELSE chain_b_next([ch EXCEPT !.a = None])
    ELSE chain_b_next(ch)

\* collect(): everything the chain yields
RECURSIVE chain_collect(_)
chain_collect(ch) ==
    LET r == chain_next(ch)
    IN IF IsNone(r.item) THEN << >> ELSE << Unwrap(r.item) >> \o chain_collect(r.ch)

\* PathSlice::iter_points
iter_points(segs) == Pts(FrontOnly(segs))

\* Path::polyline
Path_polyline(points) ==
    [i \in 1..Len(points) |-> PathSegment(points[i].x, points[i].y, StraightLine)]

\* PathSlice::outline: the segments of the path it returns
path_outline(segs, line_width) ==
    close(Path_polyline(Pts(chain_collect(outline(iter_points(segs), line_width)))))

OutlineStart(segs, line_width) ==
    /\ outline_segs = segs
    /\ outline_width = line_width
    /\ outline_iter = outline(iter_points(segs), line_width)
    /\ outline_out = << >>
    /\ outline_done = FALSE
    /\ outline_result = None

OutlineIdle == OutlineStart(<< >>, 1)

\* one next() on the iterator outline() returned
OutlineNext ==
    /\ ~outline_done
    /\ LET r == chain_next(outline_iter)
       IN /\ outline_iter' = r.ch
          /\ outline_out' = IF IsSome(r.item) THEN Append(outline_out, Unwrap(r.item))
                            ELSE outline_out
          /\ outline_done' = IsNone(r.item)
    /\ UNCHANGED << outline_segs, outline_width, outline_result >>

\* self.outline(line_width) on the path
PathOutline ==
    /\ IsNone(outline_result)
    /\ outline_result' = Some(path_outline(outline_segs, outline_width))
    /\ UNCHANGED << outline_segs, outline_width, outline_iter, outline_out, outline_done >>

-----------------------------------------------------------------------------
(* Error, DrawMethod, NoopDrawer, TrapezoidMethod and Context               *)
(* (chalkboard/src/error.rs, draw_method/, context.rs).                     *)

\* DrawOperation: the variant is all a draw method of the model looks at
DrawOperations == { "Mask", "Fill", "Stroke" }

\* Error::unsupported / Error::from_display / Error::is_unsupported
ErrorUnsupported == [kind |-> "Unsupported", msg |-> ""]
ErrorFromDisplay(msg) == [kind |-> "Display", msg |-> msg]
is_unsupported(e) == e.kind = "Unsupported"

Ok == [ok |-> TRUE, panic |-> FALSE, err |-> ErrorFromDisplay("")]
Err(e) == [ok |-> FALSE, panic |-> FALSE, err |-> e]
Panic == [ok |-> FALSE, panic |-> TRUE, err |-> ErrorFromDisplay("")]

\* the links of a chain: NoopDrawer, TrapezoidMethod, and an implementation of
\* DrawMethod that draws the operations in `supports` and reports the others
\* as unsupported
NoopDrawer == [kind |-> "NoopDrawer", supports |-> {}]
TrapezoidMethod == [kind |-> "TrapezoidMethod", supports |-> {}]
CustomMethod(supports) == [kind |-> "Custom", supports |-> supports]

\* a NoopDrawer::draw that reports the operation as unsupported
noop_draw_unsupported(op) == Err(ErrorUnsupported)

\* NoopDrawer::draw
noop_draw(op) == Err(ErrorFromDisplay("Attempted to draw with a NoopDrawer"))

\* DrawMethod::draw of a link; backend_fails: the device reports an error
method_draw(link, op, backend_fails) ==
    CASE link.kind = "NoopDrawer" -> noop_draw(op)
      [] link.kind = "TrapezoidMethod" -> Panic                      \* todo!()
      [] OTHER -> IF op \notin link.supports THEN Err(ErrorUnsupported)
                  ELSE IF backend_fails THEN Err(ErrorFromDisplay("backend"))
                  ELSE Ok

\* DrawMethod::inner: the next link; NoopDrawer::inner is the NoopDrawer itself
method_inner(ch, i) == IF ch[i].kind = "NoopDrawer" THEN i ELSE i + 1

\* Context::draw: the loop, from method i, with `fuel` iterations left
RECURSIVE context_draw(_, _, _, _, _, _)
context_draw(ch, i, op, backend_fails, steps, fuel) ==
    LET res == method_draw(ch[i], op, backend_fails)
    IN IF fuel = 0
       THEN [res |-> res, method |-> i, steps |-> steps, returned |-> FALSE]
       ELSE IF ~res.ok /\ ~res.panic /\ is_unsupported(res.err)
       THEN context_draw(ch, method_inner(ch, i), op, backend_fails, steps + 1, fuel - 1)
       ELSE [res |-> res, method |-> i, steps |-> steps, returned |-> TRUE]

\* the chains of the model: up to MaxLinks implementations, then possibly a
\* TrapezoidMethod, then the NoopDrawer every chain ends in
CustomLinks == { CustomMethod(S) : S \in SUBSET DrawOperations }
Chains ==
    { c \o tail : c \in SeqsUpTo(CustomLinks, MaxLinks),
                  tail \in { << NoopDrawer >>, << TrapezoidMethod, NoopDrawer >> } }

NoDraw == [called |-> FALSE, op |-> "Mask", first |-> 0, res |-> Ok, steps |-> 0,
           returned |-> FALSE]
NoNoopDraw == [called |-> FALSE, op |-> "Mask", res |-> Ok]

DrawIdle ==
    /\ chain = << NoopDrawer >>
    /\ draw_method = 1
    /\ draws_made = 0
    /\ draw_outcome = NoDraw
    /\ noop_outcome = NoNoopDraw

\* Context::draw(op)
ContextDraw(op, backend_fails) ==
    /\ draws_made < MaxDraws
    /\ ~(draw_outcome.called /\ draw_outcome.res.panic)
    /\ LET r == context_draw(chain, draw_method, op, backend_fails, 0, MaxSteps)
       IN /\ draw_method' = r.method
          /\ draw_outcome' = [called |-> TRUE, op |-> op, first |-> draw_method,
                              res |-> r.res, steps |-> r.steps, returned |-> r.returned]
    /\ draws_made' = draws_made + 1
    /\ UNCHANGED << chain, noop_outcome >>

\* NoopDrawer::draw(op), called on the terminal link itself
NoopDraw(op) ==
    /\ noop_outcome' = [called |-> TRUE, op |-> op, res |-> noop_draw(op)]
    /\ UNCHANGED << chain, draw_method, draws_made, draw_outcome >>

-----------------------------------------------------------------------------
(* The XRender backend resources (chalkboard/src/breadx/xrender).           *)
(* A backend call that returns an error creates nothing; a resource id is   *)
(* never handed out twice.                                                  *)

\* FillRuleKey: the four variants, compared field by field (derived Eq/Hash)
ColorKey(clr) ==
    [variant |-> "Color", color |-> clr, grad |-> 0, angle |-> 0, width |-> 0, height |-> 0]
LinearGradientKey(g, a, w, h) ==
    [variant |-> "LinearGradient", color |-> 0, grad |-> g, angle |-> a, width |-> w, height |-> h]
RadialGradientKey(g, w, h) ==
    [variant |-> "RadialGradient", color |-> 0, grad |-> g, angle |-> 0, width |-> w, height |-> h]
ConicalGradientKey(g, w, h) ==
    [variant |-> "ConicalGradient", color |-> 0, grad |-> g, angle |-> 0, width |-> w, height |-> h]

\* the keys requested in the model
FillKeys == { ColorKey(1), LinearGradientKey(1, 0, 2, 2),
              RadialGradientKey(1, 1, 2), ConicalGradientKey(1, 2, 2) }
SurfaceSizes == { 1, 2 }

PixmapPicture(pixmap, picture) == [pixmap |-> pixmap, picture |-> picture]
MaybePixmapPicture(picture, pixmap) == [picture |-> picture, pixmap |-> pixmap]
Collected(usage, inner) == [usage |-> usage, inner |-> inner]

\* Brushes::new: the empty map
brushes_new == << >>

\* the fallible backend calls Brushes::fill makes on a miss
fill_steps(key) ==
    CASE key.variant = "Color" -> 2                  \* create_pixmap, create_picture
      [] key.variant = "LinearGradient" -> 1         \* create_linear_gradient
      [] OTHER -> IF key.width # key.height THEN 2 ELSE 1   \* create_*_gradient, set_transform

\* HashMap::entry(key) is Occupied, with the bug of never finding the entry
entry_occupied_never(brushes, key) == FALSE
\* HashMap::entry(key) is Occupied
entry_occupied(brushes, key) == key \in DOMAIN brushes

\* the Occupied arm with the bug of not counting the hit
occupied_arm_nocount(brushes, key) == brushes
\* the Occupied arm: usage.saturating_add(1) (usize::MAX is out of reach of the model)
occupied_arm(brushes, key) == [brushes EXCEPT ![key].usage = @ + 1]

\* v.insert(Collected { usage: 0, inner })
vacant_insert(brushes, key, inner) ==
    [k \in DOMAIN brushes \cup {key} |->
        IF k = key THEN Collected(0, inner) ELSE brushes[k]]

\* Brushes::fill(key) with the backend's next id xid; fail = 0, or the number of
\* the backend call of this fill that returns an error
brushes_fill(brushes, key, xid, fail) ==
    IF entry_occupied(brushes, key)
    THEN [ok |-> TRUE, picture |-> brushes[key].inner.picture,
          brushes |-> occupied_arm(brushes, key), next_xid |-> xid, created |-> {}]
    ELSE IF key.variant = "Color"
    THEN CASE fail = 1 -> [ok |-> FALSE, picture |-> 0, brushes |-> brushes,
                           next_xid |-> xid, created |-> {}]
           [] fail = 2 -> [ok |-> FALSE, picture |-> 0, brushes |-> brushes,
                           next_xid |-> xid + 1, created |-> {xid}]
           [] OTHER -> [ok |-> TRUE, picture |-> xid + 1,
                        brushes |-> vacant_insert(brushes, key,
                                        MaybePixmapPicture(xid + 1, Some(xid))),
                        next_xid |-> xid + 2, created |-> {xid, xid + 1}]
    ELSE CASE fail = 1 -> [ok |-> FALSE, picture |-> 0, brushes |-> brushes,
                           next_xid |-> xid, created |-> {}]
           [] fail = 2 -> [ok |-> FALSE, picture |-> 0, brushes |-> brushes,
                           next_xid |-> xid + 1, created |-> {xid}]
           [] OTHER -> [ok |-> TRUE, picture |-> xid,
                        brushes |-> vacant_insert(brushes, key,
                                        MaybePixmapPicture(xid, None)),
                        next_xid |-> xid + 1, created |-> {xid}]

\* the ids fill asks the backend for when nothing fails
fill_ids(brushes, key) ==
    IF entry_occupied(brushes, key) THEN 0
    ELSE IF key.variant = "Color" THEN 2 ELSE 1

\* PixmapPicture::free / MaybePixmapPicture::free: the backend frees, in call order
pixmap_picture_free(pp) == << pp.picture, pp.pixmap >>
maybe_pixmap_picture_free(mpp) ==
    IF IsSome(mpp.pixmap) THEN << mpp.picture, Unwrap(mpp.pixmap) >> ELSE << mpp.picture >>

\* all orders in which HashMap::into_iter may visit the entries
Orders(S) == { o \in [1..Cardinality(S) -> S] : \A i, j \in DOMAIN o : i # j => o[i] # o[j] }

RECURSIVE ConcatFrees(_, _)
ConcatFrees(brushes, order) ==
    IF order = << >> THEN << >>
    ELSE maybe_pixmap_picture_free(brushes[Head(order)].inner)
            \o ConcatFrees(brushes, Tail(order))

\* Brushes::free: the backend frees it would make visiting the entries in `order`
brushes_free(brushes, order) == ConcatFrees(brushes, order)

\* every resource id held in the cache
BrushResources(brushes) ==
    UNION { { brushes[k].inner.picture } \cup
            (IF IsSome(brushes[k].inner.pixmap) THEN { Unwrap(brushes[k].inner.pixmap) } ELSE {})
            : k \in DOMAIN brushes }

\* try_for_each / `?`: the calls made when call number `fail` returns an error
\* (fail = 0: none does); the failing call is the last one made
CallsMade(calls, fail) == IF fail = 0 THEN calls ELSE SubSeq(calls, 1, fail)

Range(seq) == { seq[i] : i \in DOMAIN seq }

RECURSIVE Repeats(_, _)
\* the ids of `calls` that are in `seen` or occur again later in `calls`
Repeats(calls, seen) ==
    IF calls = << >> THEN {}
    ELSE (IF Head(calls) \in seen THEN { Head(calls) } ELSE {})
            \cup Repeats(Tail(calls), seen \cup { Head(calls) })

\* the backend's free is called on every id of `calls`, in order
BackendFree(calls) ==
    /\ freed' = freed \cup Range(calls)
    /\ double_freed' = double_freed \cup Repeats(calls, freed)

\* PixmapPicture::new: create_pixmap, create_picture, fill_rectangles
pixmap_picture_new(xid, fail) ==
    CASE fail = 1 -> [ok |-> FALSE, pp |-> PixmapPicture(0, 0), next_xid |-> xid]
      [] fail = 2 -> [ok |-> FALSE, pp |-> PixmapPicture(0, 0), next_xid |-> xid + 1]
      [] fail = 3 -> [ok |-> FALSE, pp |-> PixmapPicture(0, 0), next_xid |-> xid + 2]
      [] OTHER -> [ok |-> TRUE, pp |-> PixmapPicture(xid, xid + 1), next_xid |-> xid + 2]

NoFill == [called |-> FALSE, key |-> ColorKey(0), ok |-> FALSE, picture |-> 0,
           created |-> {}, before_ok |-> FALSE, before_picture |-> 0]
NoBrushesFree == [called |-> FALSE, held |-> {}, passed |-> {}]
NoFills == [k \in FillKeys |-> [n |-> 0, picture |-> 0]]

RenderIdle ==
    /\ surface = None
    /\ residual = None
    /\ next_xid = 1
    /\ freed = {}
    /\ double_freed = {}
    /\ used_after_free = {}
    /\ fills_made = 0
    /\ ok_fills = NoFills
    /\ last_fill = NoFill
    /\ last_brushes_free = NoBrushesFree
    /\ last_op = "none"

-----------------------------------------------------------------------------
(* RenderBreadxSurface and RenderResidual (chalkboard/src/breadx/xrender/mod.rs). *)

SurfaceRec(mask, solid, brushes, w, h) ==
    [mask |-> mask, solid |-> solid, brushes |-> brushes, width |-> w, height |-> h]

\* the cache of the live object, if any
CurrentBrushes ==
    IF IsSome(surface) /\ IsSome(Unwrap(surface).brushes) THEN Unwrap(Unwrap(surface).brushes)
    ELSE IF IsSome(residual) /\ IsSome(Unwrap(residual).brushes)
    THEN Unwrap(Unwrap(residual).brushes)
    ELSE brushes_new

\* free_internal / RenderResidual::free: mask.free()?, solid.free()?, then
\* brushes.take().unwrap().free()? visiting the entries in `order`
free_calls(obj, order) ==
    pixmap_picture_free(obj.mask) \o pixmap_picture_free(obj.solid)
        \o (IF IsSome(obj.brushes) THEN brushes_free(Unwrap(obj.brushes), order) ELSE << >>)

\* whether Brushes::free is reached (mask and solid were freed without error)
ReachesBrushesFree(obj, fail) == IsSome(obj.brushes) /\ (fail = 0 \/ fail > 4)

\* the record of the run of free_calls in which call number `fail` fails
FreeRun(obj, order, fail) ==
    LET calls == CallsMade(free_calls(obj, order), fail)
    IN /\ BackendFree(calls)
       /\ last_brushes_free' =
            IF ReachesBrushesFree(obj, fail)
            THEN [called |-> TRUE,
                  held |-> BrushResources(Unwrap(obj.brushes)),
                  passed |-> Range(SubSeq(calls, 5, Len(calls)))]
            ELSE last_brushes_free

\* RenderBreadxSurface::new(width, height): two PixmapPicture::new_a8, then
\* from_residual with a residual of the same size
SurfaceNew(w, h, fail_mask, fail_solid) ==
    /\ IsNone(surface) /\ IsNone(residual)
    /\ next_xid + 3 <= MaxXid
    /\ LET m == pixmap_picture_new(next_xid, fail_mask)
           so == pixmap_picture_new(m.next_xid, fail_solid)
       IN IF ~m.ok
          THEN /\ fail_solid = 0
               /\ next_xid' = m.next_xid
               /\ UNCHANGED << surface, ok_fills >>
          ELSE IF ~so.ok
          THEN /\ next_xid' = so.next_xid
               /\ UNCHANGED << surface, ok_fills >>
          ELSE /\ next_xid' = so.next_xid
               /\ surface' = Some(SurfaceRec(m.pp, so.pp, Some(brushes_new), w, h))
               /\ ok_fills' = NoFills
    /\ last_op' = "new"
    /\ UNCHANGED << residual, freed, double_freed, used_after_free, fills_made,
                    last_fill, last_brushes_free >>

\* RenderBreadxSurface::into_residual: the fields move, mem::forget(self)
SurfaceIntoResidual ==
    /\ IsSome(surface)
    /\ IsSome(Unwrap(surface).brushes)           \* .expect("NPP")
    /\ residual' = Some(Unwrap(surface))
    /\ surface' = None
    /\ last_op' = "into_residual"
    /\ UNCHANGED << next_xid, freed, double_freed, used_after_free, fills_made, ok_fills,
                    last_fill, last_brushes_free >>

\* from_residual keeping the freed mask instead of the newly created one
from_residual_mask_stale(old, new) == old
\* from_residual: residual.mask = PixmapPicture::new_a8(..)
from_residual_mask(old, new) == new

\* RenderBreadxSurface::from_residual(width, height, residual)
SurfaceFromResidual(w, h, fail_free, fail_new) ==
    /\ IsNone(surface) /\ IsSome(residual)
    /\ LET r == Unwrap(residual)
           resized == w # r.width \/ h # r.height
           n == pixmap_picture_new(next_xid, fail_new)
       IN IF ~resized
          THEN /\ fail_free = 0 /\ fail_new = 0
               /\ surface' = Some(SurfaceRec(r.mask, r.solid, r.brushes, w, h))
               /\ UNCHANGED << next_xid, freed, double_freed >>
          ELSE /\ next_xid + 1 <= MaxXid
               /\ BackendFree(CallsMade(pixmap_picture_free(r.mask), fail_free))
               /\ IF fail_free # 0
                  THEN /\ fail_new = 0
                       /\ UNCHANGED << surface, next_xid >>     \* Err: the residual drops
                  ELSE /\ next_xid' = n.next_xid
                       /\ surface' = IF n.ok
                                     THEN Some(SurfaceRec(from_residual_mask(r.mask, n.pp),
                                                          r.solid, r.brushes, w, h))
                                     ELSE surface                \* Err: the residual drops
    /\ residual' = None
    /\ last_op' = "from_residual"
    /\ UNCHANGED << used_after_free, fills_made, ok_fills, last_fill, last_brushes_free >>

\* RenderBreadxSurface::free
SurfaceFree(order, fail) ==
    /\ IsSome(surface)
    /\ FreeRun(Unwrap(surface), order, fail)
    /\ surface' = None                          \* mem::forget(self)
    /\ last_op' = IF fail = 0 THEN "free" ELSE "free_err"
    /\ UNCHANGED << residual, next_xid, used_after_free, fills_made, ok_fills, last_fill >>

\* Drop for RenderBreadxSurface: the dropper runs free_internal and logs an error
SurfaceDrop(order, fail) ==
    /\ IsSome(surface)
    /\ FreeRun(Unwrap(surface), order, fail)
    /\ surface' = None
    /\ last_op' = "drop"
    /\ UNCHANGED << residual, next_xid, used_after_free, fills_made, ok_fills, last_fill >>

\* RenderResidual::free; on an error `self` drops, which only logs
ResidualFree(order, fail) ==
    /\ IsSome(residual)
    /\ FreeRun(Unwrap(residual), order, fail)
    /\ residual' = None
    /\ last_op' = IF fail = 0 THEN "residual_free" ELSE "residual_free_err"
    /\ UNCHANGED << surface, next_xid, used_after_free, fills_made, ok_fills, last_fill >>

\* Drop for RenderResidual: logs, frees nothing
ResidualDrop ==
    /\ IsSome(residual)
    /\ residual' = None
    /\ last_op' = "residual_drop"
    /\ UNCHANGED << surface, next_xid, freed, double_freed, used_after_free, fills_made,
                    ok_fills, last_fill, last_brushes_free >>

\* a draw on the surface: fill_picture()/stroke_picture() asks the cache for the
\* source picture of `key`, then fill_triangles composites it through the mask
SurfaceDraw(key, fail) ==
    /\ IsSome(surface)
    /\ IsSome(Unwrap(surface).brushes)           \* .as_mut().unwrap()
    /\ fills_made < MaxFills
    /\ LET s == Unwrap(surface)
           b == Unwrap(s.brushes)
           r == brushes_fill(b, key, next_xid, fail)
           used == IF r.ok THEN { s.mask.picture, s.solid.picture, r.picture } ELSE {}
       IN /\ next_xid + fill_ids(b, key) - 1 <= MaxXid
          /\ fail = 0 \/ ~entry_occupied(b, key)
          /\ surface' = Some([s EXCEPT !.brushes = Some(r.brushes)])
          /\ next_xid' = r.next_xid
          /\ used_after_free' = used_after_free \cup (used \cap freed)
          /\ ok_fills' = IF r.ok
                          THEN [ok_fills EXCEPT ![key] = [n |-> @.n + 1, picture |-> r.picture]]
                          ELSE ok_fills
          /\ last_fill' = [called |-> TRUE, key |-> key, ok |-> r.ok, picture |-> r.picture,
                           created |-> r.created,
                           before_ok |-> ok_fills[key].n >= 1,
                           before_picture |-> ok_fills[key].picture]
    /\ fills_made' = fills_made + 1
    /\ last_op' = "draw"
    /\ UNCHANGED << residual, freed, double_freed, last_brushes_free >>

-----------------------------------------------------------------------------
(* Brushes on its own: a cache that already holds the brushes of the        *)
(* colours 1..n, each created by one fill with a backend that hands out     *)
(* its ids in order, and takes further fills.                               *)

BRUSH_LIMIT == 4096

\* the map after Brushes::new() and one successful fill of each colour 1..n
FilledCache(n) ==
    [key \in { ColorKey(c) : c \in 1..n } |->
        Collected(0, MaybePixmapPicture(2 * key.color, Some(2 * key.color - 1)))]

CacheStart(n) ==
    /\ cache = FilledCache(n)
    /\ cache_xid = 2 * n + 1
    /\ cache_fills = 0
    /\ cache_leaked = {}

CacheIdle == CacheStart(0)

\* Brushes::fill(key), its backend call number `fail` returning an error
CacheFill(key, fail) ==
    /\ cache_fills < MaxCacheFills
    /\ Cardinality(DOMAIN cache) <= BRUSH_LIMIT
    /\ fail = 0 \/ (~entry_occupied(cache, key) /\ fail <= fill_steps(key))
    /\ LET r == brushes_fill(cache, key, cache_xid, fail)
       IN /\ cache' = r.brushes
          /\ cache_xid' = r.next_xid
          /\ cache_leaked' = cache_leaked \cup
                { id \in r.created :
                    ~ (/\ entry_occupied(r.brushes, key)
                       /\ id \in Range(maybe_pixmap_picture_free(r.brushes[key].inner))) }
    /\ cache_fills' = cache_fills + 1

-----------------------------------------------------------------------------
(* FallbackBreadxSurface (src/breadx/fallback.rs): the colour manager, the  *)
(* line width waiting to be submitted, and the graphics context the draw    *)
(* primitives are sent with.                                                *)

\* enum ManagedColor and its Default
Submitted(clr) == [submitted |-> TRUE, clr |-> clr]
Unsubmitted(clr) == [submitted |-> FALSE, clr |-> clr]
ManagedColorDefault == Submitted(0)

\* ColorManager::default, set_stroke, set_fill
ColorManagerDefault == [stroke |-> ManagedColorDefault, fill |-> ManagedColorDefault]
manager_set_stroke(m, clr) == [m EXCEPT !.stroke = Unsubmitted(clr)]
manager_set_fill(m, clr) == [m EXCEPT !.fill = Unsubmitted(clr)]

\* ColorManager::submit_stroke
submit_stroke(m) ==
    IF m.stroke.submitted
    THEN [manager |-> m, ret |-> None]
    ELSE [manager |-> IF m.fill.submitted
                      THEN [m EXCEPT !.fill = Unsubmitted(m.fill.clr)]
                      ELSE m,
          ret |-> Some(m.stroke.clr)]

\* ColorManager::submit_fill
submit_fill(m) ==
    IF m.fill.submitted
    THEN [manager |-> m, ret |-> None]
    ELSE [manager |-> IF m.stroke.submitted
                      THEN [m EXCEPT !.stroke = Unsubmitted(m.stroke.clr)]
                      ELSE m,
          ret |-> Some(m.fill.clr)]

\* GcParameters: the two fields the surface sets
GcParameters(foreground, lw) == [foreground |-> foreground, line_width |-> lw]

\* submit_draw_params: `changed` follows the colour only; the line width is
\* taken out of the surface in every case
submit_draw_params(m, lw, draw_type) ==
    LET d == IF draw_type = "Stroke" THEN submit_stroke(m) ELSE submit_fill(m)
        changed == IsSome(d.ret)
        params == GcParameters(d.ret, lw)
    IN [manager |-> d.manager,
        line_width |-> None,
        ret |-> IF changed THEN Some(params) ELSE None]

\* Gcontext::change: the fields present in the parameters replace the GC's
gc_change(g, params) ==
    [foreground |-> IF IsSome(params.foreground) THEN Unwrap(params.foreground)
                    ELSE g.foreground,
     line_width |-> IF IsSome(params.line_width) THEN Unwrap(params.line_width)
                    ELSE g.line_width]

NoPrimitive ==
    [sent |-> FALSE, draw_type |-> "Stroke", gc |-> GcParameters(0, 0), pending |-> None]

\* with_cached_colormap; the GC has the server's defaults
FallbackIdle ==
    /\ manager = ColorManagerDefault
    /\ surface_line_width = None
    /\ gc = GcParameters(0, 0)
    /\ requested_width = None
    /\ primitive = NoPrimitive
    /\ surface_calls = 0

\* Surface::set_stroke(color), map_color returning the pixel clr
SetStroke(clr) ==
    /\ surface_calls < MaxSurfaceCalls
    /\ manager' = manager_set_stroke(manager, clr)
    /\ surface_calls' = surface_calls + 1
    /\ UNCHANGED << surface_line_width, gc, requested_width, primitive >>

\* Surface::set_fill(FillRule::SolidColor(color)), map_color returning clr
SetFill(clr) ==
    /\ surface_calls < MaxSurfaceCalls
    /\ manager' = manager_set_fill(manager, clr)
    /\ surface_calls' = surface_calls + 1
    /\ UNCHANGED << surface_line_width, gc, requested_width, primitive >>

\* Surface::set_line_width(width)
SetLineWidth(width) ==
    /\ surface_calls < MaxSurfaceCalls
    /\ surface_line_width' = Some(width)
    /\ requested_width' = Some(width)
    /\ surface_calls' = surface_calls + 1
    /\ UNCHANGED << manager, gc, primitive >>

\* a draw primitive (draw_line.. with Stroke, fill_.. with Fill): submit_draw,
\* then the request; change_fails: self.gc.change(..) returns an error and
\* the `?` leaves before the primitive is sent
DrawPrimitive(draw_type, change_fails) ==
    /\ surface_calls < MaxSurfaceCalls
    /\ LET p == submit_draw_params(manager, surface_line_width, draw_type)
       IN /\ change_fails => IsSome(p.ret)
          /\ manager' = p.manager
          /\ surface_line_width' = p.line_width
          /\ IF change_fails
             THEN /\ primitive' = NoPrimitive
                  /\ UNCHANGED << gc, requested_width >>
             ELSE /\ gc' = IF IsSome(p.ret) THEN gc_change(gc, Unwrap(p.ret)) ELSE gc
                  /\ primitive' = [sent |-> TRUE, draw_type |-> draw_type, gc |-> gc',
                                   pending |-> requested_width]
                  /\ requested_width' = None
    /\ surface_calls' = surface_calls + 1

ExtIdle == IntensityIdle /\ OutlineIdle /\ CacheIdle /\ FallbackIdle

-----------------------------------------------------------------------------
(* SpecRender: one RenderBreadxSurface and its RenderResidual over a backend *)
(* whose calls may return errors.                                           *)

FreeOrders(obj) ==
    IF IsSome(obj.brushes) THEN Orders(DOMAIN Unwrap(obj.brushes)) ELSE { << >> }

InitRender == RenderIdle /\ PathIterIdle /\ CloseIdle /\ DrawIdle /\ GeomIdle /\ ExtIdle

NextRender ==
    \/ (\E w, h \in SurfaceSizes : \E f1, f2 \in 0..3 : SurfaceNew(w, h, f1, f2))
          /\ UNCHANGED << pathIterVars, closeVars, drawVars, geomVars, extVars >>
    \/ SurfaceIntoResidual /\ UNCHANGED << pathIterVars, closeVars, drawVars, geomVars, extVars >>
    \/ (\E w, h \in SurfaceSizes : \E ff \in 0..2 : \E fn \in 0..3 :
            SurfaceFromResidual(w, h, ff, fn))
          /\ UNCHANGED << pathIterVars, closeVars, drawVars, geomVars, extVars >>
    \/ (IsSome(surface) /\ \E order \in FreeOrders(Unwrap(surface)) :
            \E fail \in 0..Len(free_calls(Unwrap(surface), order)) : SurfaceFree(order, fail))
          /\ UNCHANGED << pathIterVars, closeVars, drawVars, geomVars, extVars >>
    \/ (IsSome(surface) /\ \E order \in FreeOrders(Unwrap(surface)) :
            \E fail \in 0..Len(free_calls(Unwrap(surface), order)) : SurfaceDrop(order, fail))
          /\ UNCHANGED << pathIterVars, closeVars, drawVars, geomVars, extVars >>
    \/ (IsSome(residual) /\ \E order \in FreeOrders(Unwrap(residual)) :
            \E fail \in 0..Len(free_calls(Unwrap(residual), order)) : ResidualFree(order, fail))
          /\ UNCHANGED << pathIterVars, closeVars, drawVars, geomVars, extVars >>
    \/ ResidualDrop /\ UNCHANGED << pathIterVars, closeVars, drawVars, geomVars, extVars >>
    \/ (\E key \in FillKeys : \E fail \in 0..fill_steps(key) : SurfaceDraw(key, fail))
          /\ UNCHANGED << pathIterVars, closeVars, drawVars, geomVars, extVars >>

SpecRender == InitRender /\ [][NextRender]_vars

-----------------------------------------------------------------------------
(* SpecDraw: a Context over a chain of draw methods.                        *)

InitDraw ==
    /\ chain \in Chains
    /\ draw_method = 1                            \* Context::new(draw_method)
    /\ draws_made = 0
    /\ draw_outcome = NoDraw
    /\ noop_outcome = NoNoopDraw
    /\ PathIterIdle /\ CloseIdle /\ RenderIdle /\ GeomIdle /\ ExtIdle

NextDraw ==
    \/ (\E op \in DrawOperations : \E bf \in BOOLEAN : ContextDraw(op, bf))
          /\ UNCHANGED << pathIterVars, closeVars, renderVars, geomVars, extVars >>
    \/ (\E op \in DrawOperations : NoopDraw(op))
          /\ UNCHANGED << pathIterVars, closeVars, renderVars, geomVars, extVars >>

SpecDraw == InitDraw /\ [][NextDraw]_vars

\* C9: NoopDrawer::draw fails for every draw operation, and the error it
\* returns is the unsupported-operation error (is_unsupported() holds of it).
C9_NoopFailsUnsupported ==
    noop_outcome.called =>
        /\ ~noop_outcome.res.ok
        /\ ~noop_outcome.res.panic
        /\ is_unsupported(noop_outcome.res.err)

-----------------------------------------------------------------------------
(* SpecPath: one point traversal of one path, pulled from both ends.        *)

InitPath == (\E segs \in Paths : PathIterStart(segs)) /\ CloseIdle /\ RenderIdle /\ DrawIdle /\ GeomIdle /\ ExtIdle

NextPath ==
    \/ IterNext /\ UNCHANGED << closeVars, renderVars, drawVars, geomVars, extVars >>
    \/ IterNextBack /\ UNCHANGED << closeVars, renderVars, drawVars, geomVars, extVars >>

SpecPath == InitPath /\ [][NextPath]_vars

-----------------------------------------------------------------------------
(* Claims about the point traversal (SpecPath).                             *)

BothEndsDone == front_none /\ back_none

NoRepeat(items) ==
    \A i, j \in 1..Len(items) : i # j => items[i].logical # items[j].logical

\* C1: a traversal pulled from the front alone never emits the same logical
\* point twice: every segment's vertex at most once, and the end point of a
\* bezier run once only (the last flattened point of the curve and the vertex
\* of the segment the curve ends at are the same logical point).
C1_NoLogicalPointTwice == (back_out = << >> /\ ~back_none) => NoRepeat(front_out)

\* C2: when both ends have returned nothing, the points pulled from the front
\* followed by the points pulled from the back in reverse order are exactly
\* the points of a front-only traversal of the same path.
C2_EndsMeetExactly ==
    BothEndsDone => Pts(front_out) \o Reverse(Pts(back_out)) = Pts(FrontOnly(segments))

\* C3: the traversal of a one-segment path yields exactly one point, the
\* segment's (x, y), from whichever end it is pulled first, and the traversal
\* of the empty path yields no point.
C3_SingleSegmentOnePoint ==
    /\ Len(segments) = 0 => Emitted = 0
    /\ Len(segments) = 1 =>
          /\ Emitted <= 1
          /\ \A i \in 1..Len(front_out) : front_out[i].pt = Point(segments[1].x, segments[1].y)
          /\ \A i \in 1..Len(back_out) : back_out[i].pt = Point(segments[1].x, segments[1].y)
          /\ (front_none \/ back_none) => Emitted = 1

C3_Witness ==
    /\ Len(segments) = 1
    /\ segments[1].ty.kind = "BezierCurve"
    /\ BothEndsDone
    /\ Len(back_out) = 1
    /\ back_out[1].pt = Point(4, 4)

\* C4: in every reachable state the lower bound of size_hint() is at most the
\* number of points the traversal still yields: from the front alone, from
\* the back alone, and - by the bound promised in every earlier state - in the
\* order of pulls that was actually made.
C4_SizeHintLowerBound ==
    /\ size_hint(TheIter) <= Len(Drain(segments, TheIter, TRUE))
    /\ size_hint(TheIter) <= Len(Drain(segments, TheIter, FALSE))
    /\ BothEndsDone => promise <= Emitted

C4_Witness ==
    /\ IsSome(front_bezier_curve_iter)
    /\ size_hint(TheIter) >= 2
    /\ Len(back_out) >= 1
    /\ Len(front_out) >= 1

-----------------------------------------------------------------------------
(* SpecClose: a Path built by push() and closed by close().                 *)

InitClose ==
    /\ path \in Paths
    /\ path_before = << >>
    /\ close_calls = 0
    /\ close_result = "none"
    /\ PathIterIdle
    /\ RenderIdle
    /\ DrawIdle
    /\ GeomIdle /\ ExtIdle

NextClose ==
    \/ Close /\ UNCHANGED << pathIterVars, renderVars, drawVars, geomVars, extVars >>
    \/ (\E seg \in SegmentAlphabet : Push(seg)) /\ UNCHANGED << pathIterVars, renderVars, drawVars, geomVars, extVars >>

SpecClose == InitClose /\ [][NextClose]_vars

\* C10: every path with 0 or 1 segments is meaningless, and close() on it
\* returns normally and leaves the segment sequence as it was.
C10_MeaninglessCloseNoOp ==
    /\ Len(path) <= 1 => is_meaningless(path)
    /\ (close_calls >= 1 /\ Len(path_before) <= 1) =>
           (path = path_before /\ close_result = "ok")

C10_Witness ==
    /\ close_calls >= 1
    /\ Len(path_before) = 1
    /\ path_before[1].ty.kind = "BezierCurve"
    /\ path = path_before
    /\ close_result = "ok"

\* C11: on a non-meaningless path a second close() changes nothing: closing
\* twice gives the same segment sequence as closing once.
C11_CloseIdempotent ==
    /\ ~is_meaningless(path) => close(close(path)) = close(path)
    /\ (close_calls = 2 /\ ~is_meaningless(path_before)) => path = path_before

C11_Witness ==
    /\ close_calls = 2
    /\ close_result = "ok"
    /\ Len(path) = MaxSegs + 1
    /\ path = path_before
    /\ path[1].ty.kind = "BezierCurve"

\* the path ends at its first point
EndsAtStart(segs) ==
    segs[1].x = segs[Len(segs)].x /\ segs[1].y = segs[Len(segs)].y

\* C12: close() on a non-meaningless path that does not end at its first
\* point appends exactly one segment, a straight line at the first segment's
\* point, and moves no earlier point; on one that ends at its first point it
\* changes nothing.
C12_CloseAppendsOne ==
    (close_calls >= 1 /\ ~is_meaningless(path_before)) =>
        IF EndsAtStart(path_before)
        THEN path = path_before
        ELSE /\ Len(path) = Len(path_before) + 1
             /\ path[Len(path)] =
                    PathSegment(path_before[1].x, path_before[1].y, StraightLine)
             /\ \A i \in 1..Len(path_before) :
                    path[i].x = path_before[i].x /\ path[i].y = path_before[i].y
             /\ \A i \in 1..(Len(path_before) - 1) : path[i] = path_before[i]

C12_Witness ==
    /\ close_calls = 1
    /\ Len(path_before) = 2
    /\ ~EndsAtStart(path_before)
    /\ path_before[2].ty.kind = "BezierCurve"
    /\ Len(path) = 3
    /\ path[3] = PathSegment(path[1].x, path[1].y, StraightLine)

-----------------------------------------------------------------------------
(* Claims about the brush cache and the surface's resources (SpecRender).   *)

CacheLive == IsSome(surface) \/ IsSome(residual)

\* C5: when Brushes::fill has succeeded for a key, a later fill of the same
\* cache with an equal key succeeds, returns the picture the earlier fill
\* returned and asks the backend to create nothing.
C5_HitReturnsSamePicture ==
    (last_fill.called /\ last_fill.before_ok) =>
        /\ last_fill.ok
        /\ last_fill.picture = last_fill.before_picture
        /\ last_fill.created = {}

C5_Witness ==
    /\ last_fill.called
    /\ last_fill.before_ok
    /\ last_fill.ok
    /\ last_fill.key = RadialGradientKey(1, 1, 2)
    /\ last_fill.picture # 0

UsageMatchesRequests ==
    CacheLive =>
        \A key \in FillKeys :
            /\ (key \in DOMAIN CurrentBrushes) <=> (ok_fills[key].n >= 1)
            /\ (key \in DOMAIN CurrentBrushes) =>
                   CurrentBrushes[key].usage = ok_fills[key].n - 1

UsageStep ==
    \A key \in FillKeys :
        /\ (key \notin DOMAIN CurrentBrushes /\ key \in DOMAIN CurrentBrushes') =>
               CurrentBrushes'[key].usage = 0
        /\ (key \in DOMAIN CurrentBrushes /\ key \in DOMAIN CurrentBrushes') =>
               /\ CurrentBrushes'[key].usage >= CurrentBrushes[key].usage
               /\ CurrentBrushes'[key].usage <= CurrentBrushes[key].usage + 1

\* C6: the first successful fill of a key creates its entry with usage 0 and
\* every later fill of that key adds exactly 1: after k successful requests
\* the usage is k - 1, and no step lowers it.
C6_UsageCountsHits == []UsageMatchesRequests /\ [][UsageStep]_vars

C6_Witness ==
    /\ IsSome(surface)
    /\ \E key \in DOMAIN CurrentBrushes :
          CurrentBrushes[key].usage = 2 /\ ok_fills[key].n = 3

\* C7: a call of Brushes::free passes every resource the cache holds to the
\* backend's free, also when one of those frees returns an error.
C7_FreeReleasesEveryBrush ==
    last_brushes_free.called => last_brushes_free.held \subseteq last_brushes_free.passed

\* C8: no resource is passed to the backend's free twice and none is used in
\* a backend call after it was freed, whatever the order of new,
\* into_residual, from_residual, free and drop and whichever calls fail.
C8_NoDoubleFreeNoUseAfterFree == double_freed = {} /\ used_after_free = {}

C8_Witness ==
    /\ IsNone(surface) /\ IsNone(residual)
    /\ last_op = "free"
    /\ last_brushes_free.called
    /\ last_brushes_free.held # {}
    /\ Cardinality(freed) >= 7
    /\ last_fill.ok

-----------------------------------------------------------------------------
(* SpecPolyline: polyline() over a sequence of points, pulled to the end.   *)

PointSeqs == SeqsUpTo(VertexPoints, MaxPoints)

InitPolyline ==
    /\ \E points \in PointSeqs : PolylineStart(points)
    /\ PathIterIdle /\ CloseIdle /\ RenderIdle /\ DrawIdle /\ CurveIdle /\ LineIdle /\ PolygonIdle /\ TrapIdle /\ RegionIdle /\ ExtIdle

NextPolyline ==
    PolylineNext /\ UNCHANGED << pathIterVars, closeVars, renderVars, drawVars,
                                 curveVars, lineVars, polygonVars, trapVars, regionVars, extVars >>

SpecPolyline == InitPolyline /\ [][NextPolyline]_vars

\* C13: polyline over n points yields n - 1 lines when n >= 2, the i-th being
\* Line::from_points(point[i], point[i+1]), in order, and no line when n <= 1.
C13_PolylineConnectsConsecutive ==
    /\ \A i \in 1..Len(poly_lines) :
          i < Len(poly_points) /\ poly_lines[i] = from_points(poly_points[i], poly_points[i + 1])
    /\ poly_done =>
          Len(poly_lines) = (IF Len(poly_points) >= 2 THEN Len(poly_points) - 1 ELSE 0)

C13_Witness ==
    /\ poly_done
    /\ Len(poly_points) = MaxPoints
    /\ Len(poly_lines) = MaxPoints - 1
    /\ poly_lines[1] = Line(0, 0, 4, 0)

-----------------------------------------------------------------------------
(* SpecCurve: into_points() of one BezierCurve, pulled to the end.  The      *)
(* curves are the ones over VertexPoints, at the origin and moved to where   *)
(* an i32 coordinate is no f32 value.                                        *)

CurveOrigins == { 0, 16777217 }
Curves ==
    { BezierCurve(Point(o + s.x, s.y), Point(o + c1.x, c1.y),
                  Point(o + c2.x, c2.y), Point(o + e.x, e.y)) :
        s \in VertexPoints, c1 \in VertexPoints, c2 \in VertexPoints,
        e \in VertexPoints, o \in CurveOrigins }

InitCurve ==
    /\ \E c \in Curves : CurveStart(c)
    /\ PathIterIdle /\ CloseIdle /\ RenderIdle /\ DrawIdle /\ PolylineIdle /\ LineIdle /\ PolygonIdle /\ TrapIdle /\ RegionIdle /\ ExtIdle

NextCurve ==
    CurveNext /\ UNCHANGED << pathIterVars, closeVars, renderVars, drawVars,
                              polylineVars, lineVars, polygonVars, trapVars, regionVars, extVars >>

SpecCurve == InitCurve /\ [][NextCurve]_vars

\* C14: into_points() ends after finitely many points, yields at least one,
\* and the last point it yields is the curve's end point.
C14_LastPointIsEnd ==
    /\ Len(curve_out) <= curve_iter.n
    /\ curve_done =>
          /\ Len(curve_out) >= 1
          /\ curve_out[Len(curve_out)] = curve.end

\* the sum of the three control-polygon edge lengths, in hundredths
approx_len(c) ==
    distance_to(c.start, c.control1) + distance_to(c.control1, c.control2)
        + distance_to(c.control2, c.end)

\* C15: into_points() yields round(sqrt(approx_len^2 + 800) / 8) points.
C15_CountIsRounded ==
    curve_done =>
        Len(curve_out) =
            RoundDiv(ISqrt(approx_len(curve) * approx_len(curve) + 800 * 100 * 100), 8 * 100)

-----------------------------------------------------------------------------
(* SpecLine: Line::intersection on two lines over a small grid.              *)

GridPoints == { Point(x, y) : x \in 0..MaxCoord, y \in 0..MaxCoord }
GridLines == { from_points(p, q) : p \in GridPoints, q \in GridPoints }

InitLine ==
    /\ \E a \in GridLines, b \in GridLines : LineStart(a, b)
    /\ PathIterIdle /\ CloseIdle /\ RenderIdle /\ DrawIdle /\ PolylineIdle /\ CurveIdle /\ PolygonIdle /\ TrapIdle /\ RegionIdle /\ ExtIdle

NextLine ==
    Intersect /\ UNCHANGED << pathIterVars, closeVars, renderVars, drawVars,
                              polylineVars, curveVars, polygonVars, trapVars, regionVars, extVars >>

SpecLine == InitLine /\ [][NextLine]_vars

\* a point lies within a segment's bounding span, in x and in y
InSpan(line, point) ==
    /\ point.x <= Max(line.x1, line.x2) /\ point.x >= -Max(-line.x1, -line.x2)
    /\ point.y <= Max(line.y1, line.y2) /\ point.y >= -Max(-line.y1, -line.y2)

\* the endpoints of each segment lie on opposite sides of the other's line, or
\* an endpoint is colinear with the other segment and within its span
SegmentsMeet(a, b) ==
    LET p1 == Point(a.x1, a.y1)
        p2 == Point(a.x2, a.y2)
        p3 == Point(b.x1, b.y1)
        p4 == Point(b.x2, b.y2)
        o1 == Orientation_get(p1, p2, p3)
        o2 == Orientation_get(p1, p2, p4)
        o3 == Orientation_get(p3, p4, p1)
        o4 == Orientation_get(p3, p4, p2)
    IN \/ (o1 # o2 /\ o3 # o4)
       \/ (o1 = "Colinear" /\ InSpan(a, p3))
       \/ (o2 = "Colinear" /\ InSpan(a, p4))
       \/ (o3 = "Colinear" /\ InSpan(b, p1))
       \/ (o4 = "Colinear" /\ InSpan(b, p2))

\* C16: Line::intersection(a, b) is true exactly when the endpoints of each
\* segment lie on opposite sides of the other segment's line or an endpoint of
\* one is colinear with the other segment and within its span in x and in y.
C16_IntersectionIsSegmentsMeet ==
    IsSome(intersection_result) =>
        (Unwrap(intersection_result) <=> SegmentsMeet(line_self, line_other))

-----------------------------------------------------------------------------
(* SpecPolygon: one Polygon, built empty, from edges or from path events,    *)
(* and grown by add_edge.                                                    *)

PolyPoints ==
    { Point2D(Fin(0), Fin(0)), Point2D(Fin(8), Fin(0)), Point2D(Fin(8), Fin(1)),
      Point2D(Fin(8), Fin(6)), Point2D(Fin(0), Inf(1)) }
PolyEdges == { Edge_new(p1, p2) : p1 \in PolyPoints, p2 \in PolyPoints }

InitPolygon ==
    /\ PolygonIdle
    /\ PathIterIdle /\ CloseIdle /\ RenderIdle /\ DrawIdle
    /\ PolylineIdle /\ CurveIdle /\ LineIdle /\ TrapIdle /\ RegionIdle /\ ExtIdle

NextPolygon ==
    \/ PolygonDefault
          /\ UNCHANGED << pathIterVars, closeVars, renderVars, drawVars,
                          polylineVars, curveVars, lineVars, trapVars, regionVars, extVars >>
    \/ (\E p1 \in PolyPoints, p2 \in PolyPoints : PolygonAddEdge(p1, p2))
          /\ UNCHANGED << pathIterVars, closeVars, renderVars, drawVars,
                          polylineVars, curveVars, lineVars, trapVars, regionVars, extVars >>
    \/ (IsNone(polygon) /\ \E edge_seq \in SeqsUpTo(PolyEdges, MaxEdges) :
            PolygonFromEdges(edge_seq))
          /\ UNCHANGED << pathIterVars, closeVars, renderVars, drawVars,
                          polylineVars, curveVars, lineVars, trapVars, regionVars, extVars >>
    \/ (IsNone(polygon) /\ \E points \in SeqsUpTo(PolyPoints, MaxEdges + 1) \ { << >> },
                               closed \in BOOLEAN :
            PolygonFromEvents(points, closed))
          /\ UNCHANGED << pathIterVars, closeVars, renderVars, drawVars,
                          polylineVars, curveVars, lineVars, trapVars, regionVars, extVars >>

SpecPolygon == InitPolygon /\ [][NextPolygon]_vars

\* the edge was built by Edge::new from two points with equal y
BuiltFromEqualY(edge) == f32_eq(edge.top, edge.bottom)

PolygonEdges == IF IsSome(polygon) THEN Unwrap(polygon).edges ELSE << >>

\* C17 as stated: no edge built from two points with equal y is in a
\* Polygon's edges, however the polygon was built.
C17_NoHorizontalEdge_AsStated ==
    \A i \in 1..Len(PolygonEdges) : ~BuiltFromEqualY(PolygonEdges[i])

\* C17: no edge built from two points with equal finite y is in a Polygon's
\* edges, whether it came through add_edge, a collection of edges or a
\* collection of path events.
C17_NoHorizontalEdge ==
    \A i \in 1..Len(PolygonEdges) :
        ~(BuiltFromEqualY(PolygonEdges[i]) /\ is_finite(PolygonEdges[i].top))

C17_Witness ==
    /\ polygon_built = "events"
    /\ Len(offered) = 3
    /\ BuiltFromEqualY(offered[1]) /\ is_finite(offered[1].top)
    /\ ~f32_eq(offered[1].line.vector.x, F32Zero)
    /\ PolygonEdges = << offered[2], offered[3] >>

-----------------------------------------------------------------------------
(* SpecTrap: Trapezoid::from_triangle on one triangle and the iteration of   *)
(* what it returns.                                                          *)

TrapPoints ==
    { Point2D(Fin(x), Fin(y)) : x \in { 0, 8 }, y \in { 0, 1, 2, 6 } }
        \cup { Point2D(Fin(0), NaN) }
Triangles == { Triangle(a, b, c) : a \in TrapPoints, b \in TrapPoints, c \in TrapPoints }

InitTrap ==
    /\ \E t \in Triangles : TrapStart(t)
    /\ PathIterIdle /\ CloseIdle /\ RenderIdle /\ DrawIdle
    /\ PolylineIdle /\ CurveIdle /\ LineIdle /\ PolygonIdle /\ RegionIdle /\ ExtIdle

NextTrap ==
    \/ FromTriangle
          /\ UNCHANGED << pathIterVars, closeVars, renderVars, drawVars,
                          polylineVars, curveVars, lineVars, polygonVars, regionVars, extVars >>
    \/ ThriceNext
          /\ UNCHANGED << pathIterVars, closeVars, renderVars, drawVars,
                          polylineVars, curveVars, lineVars, polygonVars, regionVars, extVars >>
    \/ ThriceNextBack
          /\ UNCHANGED << pathIterVars, closeVars, renderVars, drawVars,
                          polylineVars, curveVars, lineVars, polygonVars, regionVars, extVars >>

SpecTrap == InitTrap /\ [][NextTrap]_vars

\* how many of the three vertex pairs satisfy Same
PairsSharing(t, Same(_, _)) ==
    (IF Same(t.a.y, t.b.y) THEN 1 ELSE 0) + (IF Same(t.b.y, t.c.y) THEN 1 ELSE 0)
        + (IF Same(t.c.y, t.a.y) THEN 1 ELSE 0)

\* 0 when all three vertices share y, 1 when exactly two do, 2 otherwise
ExpectedTrapezoids(t, Same(_, _)) ==
    CASE PairsSharing(t, Same) = 3 -> 0
      [] PairsSharing(t, Same) = 1 -> 1
      [] OTHER -> 2

-----------------------------------------------------------------------------
(* SpecRegion: one Region that starts empty and takes boxes by add, extend   *)
(* and from_iter.                                                            *)

RegionBoxes ==
    { Box2D(Point2D(x1, y1), Point2D(x2, y2)) :
        x1 \in { T_min_value, 0, T_max_value }, x2 \in { T_min_value, 0, T_max_value },
        y1 \in { 0, 1 }, y2 \in { 0, 1 } }
BoxSeqs == SeqsUpTo(RegionBoxes, MaxBoxes)

InitRegion ==
    /\ RegionIdle
    /\ PathIterIdle /\ CloseIdle /\ RenderIdle /\ DrawIdle
    /\ PolylineIdle /\ CurveIdle /\ LineIdle /\ PolygonIdle /\ TrapIdle /\ ExtIdle

NextRegion ==
    \/ (\E box_ \in RegionBoxes : RegionAdd(box_))
          /\ UNCHANGED << pathIterVars, closeVars, renderVars, drawVars,
                          polylineVars, curveVars, lineVars, polygonVars, trapVars, extVars >>
    \/ (\E box_seq \in SeqsUpTo(RegionBoxes, MaxBoxes - Len(region_boxes)) : RegionExtend(box_seq))
          /\ UNCHANGED << pathIterVars, closeVars, renderVars, drawVars,
                          polylineVars, curveVars, lineVars, polygonVars, trapVars, extVars >>
    \/ (region_op = "default" /\ \E box_seq \in BoxSeqs : RegionFromIter(box_seq))
          /\ UNCHANGED << pathIterVars, closeVars, renderVars, drawVars,
                          polylineVars, curveVars, lineVars, polygonVars, trapVars, extVars >>

SpecRegion == InitRegion /\ [][NextRegion]_vars

Min(a, b) == IF a <= b THEN a ELSE b

\* the smallest axis-aligned box that contains every box of a non-empty sequence
RECURSIVE MinimalBox(_)
MinimalBox(box_seq) ==
    IF Len(box_seq) = 1 THEN Head(box_seq)
    ELSE LET h == Head(box_seq)
             r == MinimalBox(Tail(box_seq))
         IN Box2D(Point2D(Min(h.min.x, r.min.x), Min(h.min.y, r.min.y)),
                  Point2D(Max(h.max.x, r.max.x), Max(h.max.y, r.max.y)))

\* box `outer` contains box `inner`
BoxContains(outer, inner) ==
    /\ outer.min.x <= inner.min.x /\ outer.min.y <= inner.min.y
    /\ outer.max.x >= inner.max.x /\ outer.max.y >= inner.max.y

\* C19: after any insertions into a Region that started empty, bounds() is
\* the smallest axis-aligned box that contains every box added so far.
C19_BoundsIsMinimalBox ==
    Len(region_boxes) >= 1 => region_bounds = MinimalBox(region_boxes)

\* C20: the bounds after an insertion contain the bounds before it, for the
\* insertions made and for add_to_bounds on any bounds and any box.
C20_BoundsNeverShrink ==
    /\ BoxContains(region_bounds, bounds_before)
    /\ \A bounds \in Range(region_boxes) \cup { region_bounds } : \A new \in RegionBoxes :
          BoxContains(add_to_bounds(bounds, new), bounds)

C20_Witness ==
    /\ region_op = "extend"
    /\ Len(region_boxes) = MaxBoxes
    /\ region_boxes[1] = Box2D(Point2D(0, 0), Point2D(0, 1))
    /\ region_boxes[MaxBoxes] = Box2D(Point2D(T_min_value, 0), Point2D(T_max_value, 1))
    /\ BoxContains(region_bounds, bounds_before)
    /\ BoxContains(region_bounds, region_boxes[MaxBoxes])

-----------------------------------------------------------------------------
(* SpecIntensity: one call of Intensity::new, of either crate, on an f32    *)
(* around 0.0, around 1.0, in between, infinite or NaN, and into_inner()    *)
(* on what it returned.                                                     *)

IntensityInputs ==
    { Fin(v) : v \in -MaxUlps .. MaxUlps }
      \cup { Fin(F32One.v - d) : d \in 0 .. MaxUlps }
      \cup { Fin(F32One.v + 2 * d) : d \in 1 .. MaxUlps }
      \cup { Fin(F32One.v \div 2), Inf(1), Inf(-1), NaN }

InitIntensity ==
    /\ \E x \in IntensityInputs : IntensityStart(x)
    /\ PathIterIdle /\ CloseIdle /\ RenderIdle /\ DrawIdle /\ GeomIdle /\ OutlineIdle /\ CacheIdle /\ FallbackIdle

NextIntensity ==
    \/ GeometryIntensityNew
          /\ UNCHANGED << pathIterVars, closeVars, renderVars, drawVars, geomVars, outlineVars, cacheVars, fallbackVars >>
    \/ IntensityNew
          /\ UNCHANGED << pathIterVars, closeVars, renderVars, drawVars, geomVars, outlineVars, cacheVars, fallbackVars >>
    \/ IntoInner
          /\ UNCHANGED << pathIterVars, closeVars, renderVars, drawVars, geomVars, outlineVars, cacheVars, fallbackVars >>

SpecIntensity == InitIntensity /\ [][NextIntensity]_vars

\* x is NaN or lies outside [0, 1]
OutsideUnit(x) == x.k # "fin" \/ x.v < 0 \/ x.v > F32One.v

\* C21: Intensity::new(x) is None for every x that is NaN or outside [0,1],
\* and otherwise Some(i) with i.into_inner() = x.
C21_IntensityNewChecksRange ==
    intensity_impl # "none" =>
        IF OutsideUnit(intensity_arg)
        THEN IsNone(intensity_result)
        ELSE /\ IsSome(intensity_result)
             /\ IsSome(inner_result) => Unwrap(inner_result) = intensity_arg

-----------------------------------------------------------------------------
(* SpecOutline: the outline of a path of straight lines, pulled point by     *)
(* point from outline() and built whole by PathSlice::outline.  The paths    *)
(* are the polylines over VertexPoints and the closed rectangle              *)
(* (0,0), (10,0), (10,10), (0,10).                                           *)

RectanglePath ==
    close(Path_polyline(<< Point(0, 0), Point(10, 0), Point(10, 10), Point(0, 10) >>))

OutlinePaths == { Path_polyline(points) : points \in PointSeqs } \cup { RectanglePath }

InitOutline ==
    /\ \E segs \in OutlinePaths, line_width \in 1..MaxWidth : OutlineStart(segs, line_width)
    /\ PathIterIdle /\ CloseIdle /\ RenderIdle /\ DrawIdle /\ GeomIdle /\ IntensityIdle /\ CacheIdle /\ FallbackIdle

NextOutline ==
    \/ OutlineNext
          /\ UNCHANGED << pathIterVars, closeVars, renderVars, drawVars, geomVars, intensityVars, cacheVars, fallbackVars >>
    \/ PathOutline
          /\ UNCHANGED << pathIterVars, closeVars, renderVars, drawVars, geomVars, intensityVars, cacheVars, fallbackVars >>

SpecOutline == InitOutline /\ [][NextOutline]_vars

MinOf(S) == CHOOSE m \in S : \A n \in S : m <= n
MaxOf(S) == CHOOSE m \in S : \A n \in S : m >= n

\* C22: the outline of the closed rectangle with line width 2 is a non-empty
\* closed path whose bounding box is (-1,-1) to (11,11), within 1 unit on
\* each coordinate.
C22_RectangleOutline ==
    (outline_segs = RectanglePath /\ outline_width = 2 /\ IsSome(outline_result)) =>
        LET segs == Unwrap(outline_result)
            xs == { segs[i].x : i \in DOMAIN segs }
            ys == { segs[i].y : i \in DOMAIN segs }
        IN /\ Len(segs) > 0
           /\ segs[Len(segs)].x = segs[1].x /\ segs[Len(segs)].y = segs[1].y
           /\ Abs(MinOf(xs) + 1) <= 1 /\ Abs(MinOf(ys) + 1) <= 1
           /\ Abs(MaxOf(xs) - 11) <= 1 /\ Abs(MaxOf(ys) - 11) <= 1

C22_Witness ==
    /\ outline_segs = RectanglePath /\ outline_width = 2
    /\ IsSome(outline_result)
    /\ Len(Unwrap(outline_result)) = 10
    /\ outline_done /\ Len(outline_out) = 10

\* which side of the line from p to q the displacement of an emitted point
\* lies on: the sign of the cross product
Side(p, q, e) ==
    (q.x - p.x) * (e.pt.y - e.base.y) - (q.y - p.y) * (e.pt.x - e.base.x)

\* C23: for every line of the input polyline, the points the backward pass
\* emits for it lie on the opposite side of the line from the points the
\* forward pass emits for it.
C23_PassesOnOppositeSides ==
    \A i \in DOMAIN outline_out : \A j \in DOMAIN outline_out :
        LET f == outline_out[i]
            b == outline_out[j]
            p == point1(f.line)
            q == point2(f.line)
        IN (/\ f.multiplier = 1 /\ b.multiplier = -1
            /\ p # q
            /\ b.line = from_points(q, p)
            /\ Side(p, q, f) # 0 /\ Side(p, q, b) # 0)
           => Side(p, q, f) * Side(p, q, b) < 0

-----------------------------------------------------------------------------
(* SpecCache: Brushes::fill on a cache that is empty or nearly empty, or     *)
(* holds nearly BRUSH_LIMIT brushes.  A fill asks for the next colour not    *)
(* yet in the cache, for the first colour, or for a gradient.                *)

CacheSizes == (0 .. MaxCacheFills) \cup ((BRUSH_LIMIT - MaxCacheFills) .. BRUSH_LIMIT)

InitCache ==
    /\ \E n \in CacheSizes : CacheStart(n)
    /\ PathIterIdle /\ CloseIdle /\ RenderIdle /\ DrawIdle /\ GeomIdle
    /\ IntensityIdle /\ OutlineIdle /\ FallbackIdle

NextCache ==
    \/ (\E fail \in 0..2 : CacheFill(ColorKey((cache_xid + 1) \div 2), fail))
          /\ UNCHANGED << pathIterVars, closeVars, renderVars, drawVars, geomVars,
                          intensityVars, outlineVars, fallbackVars >>
    \/ (\E key \in FillKeys, fail \in 0..2 : CacheFill(key, fail))
          /\ UNCHANGED << pathIterVars, closeVars, renderVars, drawVars, geomVars,
                          intensityVars, outlineVars, fallbackVars >>

SpecCache == InitCache /\ [][NextCache]_vars

\* C24: the brush cache never holds more than BRUSH_LIMIT entries.
C24_CacheWithinLimit == Cardinality(DOMAIN cache) <= BRUSH_LIMIT

\* C28: when Brushes::fill returns, every backend resource created during
\* the call is stored in the cache under the requested key or has been
\* released, also when a later backend step of the call failed.
C28_FillStoresOrReleases == cache_leaked = {}

-----------------------------------------------------------------------------
(* Further claims about the point traversal (SpecPath).                      *)

\* C25: once a pull has returned None, every later pull from either end
\* returns None.
C25_FusedAtBothEnds == ~revived

C25_Witness ==
    /\ front_none /\ back_none
    /\ Len(segments) = MaxSegs
    /\ \E i \in DOMAIN segments : segments[i].ty.kind = "BezierCurve"
    /\ Len(front_out) >= 1 /\ Len(back_out) >= 1

\* C29: in a traversal pulled from the front only, the first point
\* yielded is the point of the path's first segment, also when that
\* segment's link to the next segment is a bezier curve.
C29_FirstPointIsFirstSegment ==
    (back_out = << >> /\ ~back_none /\ Len(front_out) >= 1) =>
        front_out[1].pt = Point(segments[1].x, segments[1].y)

-----------------------------------------------------------------------------
(* Further claims about Context::draw (SpecDraw).                            *)

C27_DrawStartsOutermost == draw_outcome.called => draw_outcome.first = 1

-----------------------------------------------------------------------------
(* SpecFallback: one FallbackBreadxSurface, its setters and draw primitives. *)

DrawTypes == { "Stroke", "Fill" }

InitFallback ==
    /\ FallbackIdle
    /\ PathIterIdle /\ CloseIdle /\ RenderIdle /\ DrawIdle /\ GeomIdle
    /\ IntensityIdle /\ OutlineIdle /\ CacheIdle

NextFallback ==
    \/ (\E clr \in 1..MaxPixel : SetStroke(clr))
          /\ UNCHANGED << pathIterVars, closeVars, renderVars, drawVars, geomVars,
                          intensityVars, outlineVars, cacheVars >>
    \/ (\E clr \in 1..MaxPixel : SetFill(clr))
          /\ UNCHANGED << pathIterVars, closeVars, renderVars, drawVars, geomVars,
                          intensityVars, outlineVars, cacheVars >>
    \/ (\E width \in 1..MaxLineWidth : SetLineWidth(width))
          /\ UNCHANGED << pathIterVars, closeVars, renderVars, drawVars, geomVars,
                          intensityVars, outlineVars, cacheVars >>
    \/ (\E draw_type \in DrawTypes, change_fails \in BOOLEAN :
            DrawPrimitive(draw_type, change_fails))
          /\ UNCHANGED << pathIterVars, closeVars, renderVars, drawVars, geomVars,
                          intensityVars, outlineVars, cacheVars >>

SpecFallback == InitFallback /\ [][NextFallback]_vars

\* C30: a draw primitive that follows a set_line_width(w) is sent with a
\* graphics context whose line width is w: the width waiting in the surface
\* has been applied by a GC change before the primitive goes out, whatever
\* the submitted/unsubmitted state of the two colours.
C30_LineWidthApplied ==
    (primitive.sent /\ IsSome(primitive.pending)) =>
        primitive.gc.line_width = Unwrap(primitive.pending)

====
